---------------------------- MODULE Spec2Model ----------------------------
(***************************************************************************)
(* A model of the ox compiler toolkit (fabiommendes/ox):                   *)
(*                                                                         *)
(*   - the operator-chain reducer of ox/algorithms.py,                     *)
(*   - the precedence-aware printer of ox/target/python/expr_ast.py,       *)
(*   - the node heap of ox/ast (construction, copy, simplify, equality),   *)
(*   - the per-hierarchy metadata of ox/ast/meta_attr.py.                  *)
(*                                                                         *)
(* Each part has its own specification over its own variables; the other   *)
(* variables idle at their initial value.                                  *)
(***************************************************************************)
EXTENDS Integers, Sequences, FiniteSets, TLC

VARIABLES
    \* operator-chain reducer (ox/algorithms.py)
    chain,          \* the argument `chain`: [value, op, value, ..., value]
    precedence,     \* the argument `precedence`: operator -> level
    right_assoc,    \* the argument `right_assoc`: set of operators
    chainOut,       \* <<"pending">>, <<"ok", tree>> or <<"ValueError">>
    \* printer and re-parser (ox/target/python/expr_ast.py)
    tree,           \* the expression handed to source()
    src,            \* the fragments yielded by tokens(); source() joins them
    parsed,         \* the tree parsed back from src
    printPc,        \* "idle", "built", "printed" or "parsed"
    \* node heap (ox/ast/ast_meta.py, ox/ast/ast_base.py)
    heap,           \* the node objects, by identity 1..Len(heap)
    last,           \* the last call: operation, arguments, result, error
    \* type declarations (ox/ast/ast_meta.py, ox/ast/meta_attr.py)
    types,          \* the declared types and their _meta, by identity
    tables,         \* the symbol tables ever created: the type keys of each
    symbols,        \* the symbol keys of each table, with the type each builds
    coerces,        \* the coerce functions ever created: the root of each
    \* single calls of the remaining operations
    call,           \* the call: the operation and its arguments
    result          \* <<"pending">> or what the call returned or raised

chainVars == <<chain, precedence, right_assoc, chainOut>>
printVars == <<tree, src, parsed, printPc>>
heapVars == <<heap, last>>
metaVars == <<types, tables, symbols, coerces>>
callVars == <<call, result>>

vars == <<chainVars, printVars, heapVars, metaVars, callVars>>

(***************************************************************************)
(* Bounds                                                                  *)
(***************************************************************************)
MaxOps == 3         \* operators in a chain
MaxPrec == 2        \* precedence levels of a custom table
MaxInner == 2       \* inner nodes of a printed expression
MaxNodes == 5       \* node objects ever allocated
MaxHeap == 12       \* objects allocated around one constructed expression
MaxTypes == 3       \* types declared on top of AST
MaxDecls == 3       \* types declared with symbols on top of AST
MaxArgs == 2        \* positional arguments of an S-expression call
MaxFields == 4      \* annotated fields of a declared node type
MaxIndex == 2       \* largest index given to a sequence operation on children
MaxSrc == 4         \* characters of a source string given to a lexer
MaxAlts == 2        \* definitions of one rule given to a parser
MaxWrappers == 3    \* wrapper objects of one session
MaxLevel == 6       \* indentation levels of a print context
MaxStep == 3        \* the argument n of indent(n) and dedent(n)
MaxRules == 3       \* pattern specs given to one lexer

(***************************************************************************)
(* The value of each part's variables while another part runs              *)
(***************************************************************************)
ChainIdle ==
    /\ chain = <<>>
    /\ precedence = <<>>
    /\ right_assoc = {}
    /\ chainOut = <<"idle">>

PrintIdle ==
    /\ tree = <<"none">>
    /\ src = <<>>
    /\ parsed = <<"none">>
    /\ printPc = "idle"

CallIdle ==
    /\ call = <<"idle">>
    /\ result = <<"idle">>

MetaIdle ==
    /\ types = <<>>
    /\ tables = <<>>
    /\ symbols = <<>>
    /\ coerces = <<>>

HeapIdle ==
    /\ heap = <<>>
    /\ last = [op |-> "idle", args |-> <<>>, res |-> 0, err |-> "none"]

(***************************************************************************)
(* Generic helpers                                                         *)
(***************************************************************************)
Range(s) == {s[i] : i \in 1..Len(s)}

\* s with the element at position i (1-based) removed: list.pop(i)
RemoveAt(s, i) == [j \in 1..(Len(s) - 1) |-> IF j < i THEN s[j] ELSE s[j + 1]]

(***************************************************************************)
(* ox/algorithms.py                                                        *)
(***************************************************************************)
ChainOps == {"+", "*", "^"}

\* chain values are v0, v1, ...: the value at Python index 2*i is i
Val(i) == <<"val", i>>

\* the node builder `expr`: the default lambda *args: args ("tuple"), or
\* the BinOp class as PythonT.opchain passes it ("BinOp")
expr(builder, op_, lhs, rhs) ==
    IF builder = "tuple" THEN <<op_, lhs, rhs>> ELSE <<"BinOp", op_, lhs, rhs>>

\* chain[::2] and chain[1::2]
EvenSlice(s) == [i \in 1..((Len(s) + 1) \div 2) |-> s[2 * i - 1]]
OddSlice(s) == [i \in 1..(Len(s) \div 2) |-> s[2 * i]]

\* Python's tuple order on pairs of integers
PairGT(a, b) == a[1] > b[1] \/ (a[1] = b[1] /\ a[2] > b[2])

\* max_item(seq), key=None and no default: position (1-based) of the first
\* maximum; the scan replaces the best only on a strictly greater element
RECURSIVE MaxScan(_, _, _)
MaxScan(seq, i, idx) ==
    IF i > Len(seq) THEN idx
    ELSE IF PairGT(seq[i], seq[idx]) THEN MaxScan(seq, i + 1, i)
    ELSE MaxScan(seq, i + 1, idx)

max_item(seq) == MaxScan(seq, 2, 1)

\* the list `precedences`: (precedence[op], i if op in right_assoc else -i),
\* i being the 0-based position of the operator
PrecedencesUnsigned(ops, prec, rassoc) ==
    [j \in 1..Len(ops) |-> <<prec[ops[j]], j - 1>>]

Precedences(ops, prec, rassoc) ==
    [j \in 1..Len(ops) |->
        <<prec[ops[j]], IF ops[j] \in rassoc THEN j - 1 ELSE -(j - 1)>>]

\* the while loop of reduce_op_chain
RECURSIVE ReduceLoop(_, _, _, _)
ReduceLoop(values, ops, precs, builder) ==
    IF ops = <<>> THEN values[1]
    ELSE LET idx == max_item(precs)
             node == expr(builder, ops[idx], values[idx], values[idx + 1])
             rest == RemoveAt(values, idx + 1)
         IN ReduceLoop([rest EXCEPT ![idx] = node],
                       RemoveAt(ops, idx), RemoveAt(precs, idx), builder)

reduce_op_chain(ch, prec, rassoc, builder) ==
    LET n == Len(ch) IN
    IF n % 2 = 0 \/ n = 1 THEN <<"ValueError">>
    ELSE <<"ok", ReduceLoop(EvenSlice(ch), OddSlice(ch),
                            Precedences(OddSlice(ch), prec, rassoc), builder)>>

(***************************************************************************)
(* ox/target/python: expressions, their printer and the re-parser          *)
(*                                                                         *)
(* An expression is <<"Name", v>>, <<"Atom", v>>, <<"BinOp", op, lhs, rhs>>,*)
(* <<"And", "and", lhs, rhs>>, <<"Or", "or", lhs, rhs>> or                 *)
(* <<"UnaryOp", op, expr>>.  A source text is the sequence of fragments     *)
(* that tokens() yields; source() joins them.                              *)
(***************************************************************************)
Name(v) == <<"Name", v>>
Atom(v) == <<"Atom", v>>
BinOp(op_, lhs, rhs) == <<"BinOp", op_, lhs, rhs>>
And(lhs, rhs) == <<"And", "and", lhs, rhs>>
Or(lhs, rhs) == <<"Or", "or", lhs, rhs>>
UnaryOp(op_, e) == <<"UnaryOp", op_, e>>

IsLeaf(t) == t[1] \in {"Name", "Atom"}

\* BinaryOp.precedence_mapping of ox/target/python/operators.py
precedence_mapping ==
    [o \in {"or", "and", "|", "^", "&", ">>", "<<", "+", "-",
            "*", "/", "@", "%", "//", "**"} |->
        CASE o = "or" -> 1
          [] o = "and" -> 2
          [] o = "|" -> 4
          [] o = "^" -> 5
          [] o = "&" -> 6
          [] o \in {">>", "<<"} -> 7
          [] o \in {"+", "-"} -> 8
          [] o \in {"*", "/", "@", "%", "//"} -> 9
          [] o = "**" -> 10]

\* BinaryOpMixin.precedence_level
precedence_level(t) == precedence_mapping[t[2]]

\* the fragment f" {self.op.value} " and the operator it lexes back to
OpFragment ==
    [o \in {"+", "-", "*", "**", "and", "or"} |->
        CASE o = "+" -> " + " [] o = "-" -> " - " [] o = "*" -> " * "
          [] o = "**" -> " ** " [] o = "and" -> " and " [] o = "or" -> " or "]

FragmentOp(f) == CHOOSE o \in DOMAIN OpFragment : OpFragment[o] = f

IsOpFragment(f) == \E o \in DOMAIN OpFragment : OpFragment[o] = f

\* wrap_tokens(it, wrap) with wrap True or False
wrap_tokens(it, wrap) == IF wrap THEN <<"(">> \o it \o <<")">> ELSE it

\* BinOp.wrap_child_tokens / AST.wrap_child_tokens
WrapOnEqualPrecedence(self, child) ==
    IF self[1] = "BinOp"
    THEN IF child[1] = "BinOp"
         THEN precedence_level(self) >= precedence_level(child)
         ELSE child[1] \in {"UnaryOp", "And", "Or"}
    ELSE FALSE

wrap_child_tokens(self, child) ==
    IF self[1] = "BinOp"
    THEN IF child[1] = "BinOp"
         THEN precedence_level(self) > precedence_level(child)
         ELSE child[1] \in {"UnaryOp", "And", "Or"}
    ELSE FALSE

\* tokens() of Name, Atom, BinOp, UnaryOp and, through the command
\* template "{lhs} and {rhs}", of And and Or; child_tokens() is inlined
RECURSIVE tokens(_)
tokens(t) ==
    IF IsLeaf(t) THEN <<t[2]>>
    ELSE IF t[1] = "UnaryOp" THEN <<t[2]>> \o tokens(t[3])
    ELSE wrap_tokens(tokens(t[3]), wrap_child_tokens(t, t[3]))
         \o <<OpFragment[t[2]]>>
         \o wrap_tokens(tokens(t[4]), wrap_child_tokens(t, t[4]))

\* AST.source: "".join(self.tokens(context))
source(t) == tokens(t)

\* PYTHON_PRECEDENCE_RULES and PYTHON_RIGHT_ASSOCIATIVE, on the string
\* operators the printer emits
PYTHON_PRECEDENCE_RULES ==
    [o \in {"or", "and", "+", "-", "*", "**"} |->
        CASE o = "or" -> 1 [] o = "and" -> 2 [] o \in {"+", "-"} -> 8
          [] o = "*" -> 9 [] o = "**" -> 10]

PYTHON_RIGHT_ASSOCIATIVE == {"**"}

\* PythonT.opchain: xs[0] if len(xs) == 1 else op_chain(xs, expr=BinOp)
opchain(xs) ==
    IF Len(xs) = 1 THEN xs[1]
    ELSE reduce_op_chain(xs, PYTHON_PRECEDENCE_RULES,
                         PYTHON_RIGHT_ASSOCIATIVE, "BinOp")[2]

\* the re-parser: a parenthesised group or a leaf is a primary, a run
\* primary (op primary)* is handed to opchain.  ParseChain returns
\* <<tree, position after the run>>.
ParseLeaf(f) == IF f \in {"1", "2"} THEN Atom(f) ELSE Name(f)

RECURSIVE ParseChain(_, _, _)
ParseChain(toks, pos, xs) ==
    LET prim == IF toks[pos] = "("
                THEN LET inner == ParseChain(toks, pos + 1, <<>>)
                     IN <<inner[1], inner[2] + 1>>
                ELSE <<ParseLeaf(toks[pos]), pos + 1>>
        ys == Append(xs, prim[1])
        nxt == prim[2]
    IN IF nxt <= Len(toks) /\ IsOpFragment(toks[nxt])
       THEN ParseChain(toks, nxt + 1, Append(ys, FragmentOp(toks[nxt])))
       ELSE <<opchain(ys), nxt>>

parse(toks) == ParseChain(toks, 1, <<>>)[1]

(***************************************************************************)
(* Specification of the printer: an expression is drawn, printed with      *)
(* source() and, when it is made of BinOp nodes over leaves, parsed back.  *)
(***************************************************************************)
PrintLeaves == {Name("x"), Atom("1")}
PrintBinOps == {"+", "-", "*", "**"}

\* the expressions with exactly n inner nodes
RECURSIVE ExprsOfSize(_)
ExprsOfSize(n) ==
    IF n = 0 THEN PrintLeaves
    ELSE LET pairs == UNION {ExprsOfSize(i) \X ExprsOfSize(n - 1 - i) : i \in 0..(n - 1)}
         IN UNION {
              {BinOp(o, p[1], p[2]) : o \in PrintBinOps, p \in pairs},
              {And(p[1], p[2]) : p \in pairs},
              {Or(p[1], p[2]) : p \in pairs},
              {UnaryOp("-", e) : e \in ExprsOfSize(n - 1)} }

\* the operator example of tests/test_python.py, test_source
TestSourceExpr ==
    BinOp("*", BinOp("+", Name("x"), Atom("1")), BinOp("*", Name("y"), Atom("2")))

PrintExprs == UNION {ExprsOfSize(n) : n \in 0..MaxInner} \cup {TestSourceExpr}

RECURSIVE OnlyBinOps(_)
OnlyBinOps(t) ==
    \/ IsLeaf(t)
    \/ t[1] = "BinOp" /\ OnlyBinOps(t[3]) /\ OnlyBinOps(t[4])

PrintInit ==
    /\ tree \in PrintExprs
    /\ src = <<>>
    /\ parsed = <<"none">>
    /\ printPc = "built"
    /\ ChainIdle
    /\ HeapIdle
    /\ MetaIdle
    /\ CallIdle

Source ==
    /\ printPc = "built"
    /\ src' = source(tree)
    /\ printPc' = "printed"
    /\ UNCHANGED <<tree, parsed, chainVars, heapVars, metaVars, callVars>>

Parse ==
    /\ printPc = "printed"
    /\ OnlyBinOps(tree)
    /\ parsed' = parse(src)
    /\ printPc' = "parsed"
    /\ UNCHANGED <<tree, src, chainVars, heapVars, metaVars, callVars>>

PrintNext == Source \/ Parse

SpecPrint == PrintInit /\ [][PrintNext]_vars

\* C1: printing a tree of BinOp nodes over Name/Atom leaves with source()
\* and parsing the text back yields a tree equal to the original, also when
\* the right child is a BinOp of the same precedence as its parent.
C1_RoundTrip == printPc = "parsed" => parsed = tree

\* the claim's rule: a BinOp child of strictly lower precedence, or a
\* UnaryOp, And or Or child, is parenthesised; nothing else is
ClaimWrapped(p, c) ==
    \/ c[1] = "BinOp" /\ precedence_mapping[c[2]] < precedence_mapping[p[2]]
    \/ c[1] \in {"UnaryOp", "And", "Or"}

ClaimSide(p, c) ==
    IF ClaimWrapped(p, c) THEN <<"(">> \o source(c) \o <<")">> ELSE source(c)

\* C2: BinOp.source() parenthesises a child exactly when it is a BinOp of
\* strictly lower precedence than the parent, or a UnaryOp, And or Or; a
\* BinOp child of equal or higher precedence and a leaf child are printed
\* bare, and MUL(ADD(x, 1), MUL(y, 2)) prints as "(x + 1) * y * 2".
C2_WrapOnlyLowerPrecedence ==
    (printPc \in {"printed", "parsed"} /\ tree[1] = "BinOp") =>
        /\ src = ClaimSide(tree, tree[3]) \o <<OpFragment[tree[2]]>>
                 \o ClaimSide(tree, tree[4])
        /\ IsLeaf(tree[3]) => src[1] = tree[3][2]
        /\ IsLeaf(tree[4]) => src[Len(src)] = tree[4][2]
        /\ tree = TestSourceExpr =>
              src = <<"(", "x", " + ", "1", ")", " * ", "y", " * ", "2">>

\* the test's expression has been printed: the lower-precedence addition is
\* wrapped, the equal-precedence multiplication is not
C2_Witness ==
    /\ printPc = "printed"
    /\ tree = TestSourceExpr
    /\ src = <<"(", "x", " + ", "1", ")", " * ", "y", " * ", "2">>

(***************************************************************************)
(* ox/ast: the node objects                                                *)
(*                                                                         *)
(* heap[i] is the object of identity i:                                    *)
(*   type    "Atom", "Name" (leaves), "UnaryOp", "BinOp" (nodes)           *)
(*   tag     the _tag slot of a node, "" for a leaf                        *)
(*   value   the value of a leaf (an integer for an Atom, a string for a   *)
(*           Name), "" for a node                                          *)
(*   kids    the child slots (expr; lhs, rhs), as identities               *)
(*   parent  _parent as an identity, 0 for None                            *)
(*   attrs   _attrs, as the set of its keys                                *)
(*   live    FALSE for an object whose constructor raised: the caller      *)
(*           holds no reference to it                                      *)
(***************************************************************************)
LeafTypes == {"Atom", "Name"}

\* meta.has_tag_field: the first field is `tag`
has_tag_field(type) == type \in {"UnaryOp", "BinOp"}

Ids(h) == 1..Len(h)
Live(h) == {i \in Ids(h) : h[i].live}

IsLeafObj(h, i) == h[i].type \in LeafTypes

\* Leaf.__init__(value, **attrs): a parentless leaf
NewLeafObj(type, value, attrs) ==
    [type |-> type, tag |-> "", value |-> value, kids |-> <<>>,
     parent |-> 0, attrs |-> attrs, live |-> TRUE]

\* object.__new__ of a node type followed by the first assignments of
\* node_init: _tag, _children, _parent = None, and _attrs
NewNodeObj(type, tag, attrs) ==
    [type |-> type, tag |-> tag, value |-> "", kids |-> <<>>,
     parent |-> 0, attrs |-> attrs, live |-> TRUE]

\* the loop of node_init over the children, in order: when child.parent is
\* None the child is parented and stored, otherwise ValueError is raised
\* and the remaining children are not visited.  Returns <<heap, error>>.
RECURSIVE InitChildren(_, _, _, _)
InitChildren(h, self, args, i) ==
    IF i > Len(args) THEN <<h, "none">>
    ELSE LET child == args[i] IN
         IF h[child].parent = 0
         THEN InitChildren([h EXCEPT ![child].parent = self,
                                     ![self].kids = Append(@, child)],
                           self, args, i + 1)
         ELSE <<h, "ValueError">>

\* node_init without the test of child.parent
NodeInitReparenting(h, type, tag, args, attrs) ==
    LET self == Len(h) + 1
        h0 == Append(h, [NewNodeObj(type, tag, attrs) EXCEPT !.kids = args])
    IN <<[i \in Ids(h0) |->
            IF i \in Range(args) THEN [h0[i] EXCEPT !.parent = self] ELSE h0[i]],
         "none">>

\* sexpr_init / node_init: the new object is Len(h) + 1; when the
\* constructor raises, the caller gets no reference to it
node_init(h, type, tag, args, attrs) ==
    LET self == Len(h) + 1
        r == InitChildren(Append(h, NewNodeObj(type, tag, attrs)), self, args, 1)
    IN IF r[2] = "none" THEN r
       ELSE <<[r[1] EXCEPT ![self].live = FALSE], r[2]>>

\* AST.static_value: Maybe.Nothing; no type of the package overrides it
static_value(h, i) == <<"Nothing">>

\* the identities under i, i included
RECURSIVE Subtree(_, _)
Subtree(h, i) ==
    {i} \cup UNION {Subtree(h, h[i].kids[k]) : k \in 1..Len(h[i].kids)}

SubtreeSize(h, i) == Cardinality(Subtree(h, i))

\* Node._simplify_or_copy(recur), with Node.copy, Node.simplify,
\* AST.simplify and the leaf's copy as recur.  The new object is a fresh
\* object of the same type with _parent None, a copy of _attrs and the
\* same _tag; each child slot is set to recur(child), and the _parent of
\* that child is left as recur returned it.  While static_value is
\* Nothing, simplify of a child is _simplify_or_copy again.  The result
\* of the call on i is the object Len(h) + 1 of the returned heap.
RECURSIVE SimplifyOrCopy(_, _)
RECURSIVE RecurChildren(_, _, _, _)

\* the copy of a leaf: a parentless leaf of the same type, value and
\* attributes
LeafCopy(h, i) == Append(h, [h[i] EXCEPT !.parent = 0])

\* recur(child): the leaf's copy for a leaf, _simplify_or_copy for a node
Recur(h, i) == IF IsLeafObj(h, i) THEN LeafCopy(h, i) ELSE SimplifyOrCopy(h, i)

RecurChildren(h, new, kids, k) ==
    IF k > Len(kids) THEN h
    ELSE LET c == Len(h) + 1
             h1 == Recur(h, kids[k])
         IN RecurChildren([h1 EXCEPT ![new].kids = Append(@, c)], new, kids, k + 1)

SimplifyOrCopy(h, i) ==
    RecurChildren(Append(h, [h[i] EXCEPT !.parent = 0, !.kids = <<>>]),
                  Len(h) + 1, h[i].kids, 1)

\* a copy that shares the children of the original
CopySharingChildren(h, i) == Append(h, [h[i] EXCEPT !.parent = 0])

\* x.copy(): Node.copy is self._simplify_or_copy(lambda x: x.copy())
copy(h, i) == Recur(h, i)

\* BinOp.from_static_children: to_expr(self.tag.function(lhs, rhs)); the
\* operator enumerations define function_mapping() but no `function`
from_static_children(h, i) == <<h, "AttributeError">>

\* Node.simplify: from_static_children when every child has a static
\* value, otherwise _simplify_or_copy(lambda x: x.simplify());
\* AST.simplify (leaves): self.copy().  Returns <<heap, error>>.
simplify(h, i) ==
    IF IsLeafObj(h, i) THEN <<copy(h, i), "none">>
    ELSE IF \A k \in 1..Len(h[i].kids) : static_value(h, h[i].kids[k])[1] = "Just"
    THEN from_static_children(h, i)
    ELSE <<SimplifyOrCopy(h, i), "none">>

\* the tag property of tag_descriptor: _tag when the first field is `tag`,
\* else the type
TagOf(h, i) == IF has_tag_field(h[i].type) THEN h[i].tag ELSE h[i].type

\* ChildrenBase.__eq__ between the children of a and b, nodes of one type:
\* every child slot compared with !=
RECURSIVE NodeEq(_, _, _)
ChildrenEqButLast(h, a, b) ==
    \A k \in 1..(Len(h[a].kids) - 1) : NodeEq(h, h[a].kids[k], h[b].kids[k])

ChildrenEq(h, a, b) ==
    \A k \in 1..Len(h[a].kids) : NodeEq(h, h[a].kids[k], h[b].kids[k])

\* a == b: SExprBase.__eq__ for nodes (type, tag, children), the leaf's
\* __eq__ for leaves (type, value)
NodeEq(h, a, b) ==
    /\ h[a].type = h[b].type
    /\ IF IsLeafObj(h, a) THEN h[a].value = h[b].value
       ELSE TagOf(h, a) = TagOf(h, b) /\ ChildrenEq(h, a, b)

(***************************************************************************)
(* Specification of the node heap: leaves are created, nodes constructed   *)
(* from any objects the program holds, and any object copied or            *)
(* simplified.                                                             *)
(***************************************************************************)
LeafChoices == {<<"Atom", 2>>, <<"Name", "x">>}
NodeChoices ==
    {<<"UnaryOp", "-", {}>>, <<"UnaryOp", "-", {"pos"}>>, <<"UnaryOp", "~", {}>>,
     <<"BinOp", "+", {}>>}

Arity(type) == IF type = "BinOp" THEN 2 ELSE 1

NoCall == [op |-> "none", args |-> <<>>, res |-> 0, err |-> "none"]

HeapInit ==
    /\ heap = <<>>
    /\ last = NoCall
    /\ ChainIdle
    /\ PrintIdle
    /\ MetaIdle
    /\ CallIdle

NewLeaf ==
    /\ Len(heap) < MaxNodes
    /\ \E c \in LeafChoices :
        /\ heap' = Append(heap, NewLeafObj(c[1], c[2], {}))
        /\ last' = [op |-> "leaf", args |-> <<>>, res |-> Len(heap) + 1,
                    err |-> "none"]
        /\ UNCHANGED <<chainVars, printVars, metaVars, callVars>>

Construct ==
    /\ Len(heap) < MaxNodes
    /\ \E c \in NodeChoices : \E args \in [1..Arity(c[1]) -> Live(heap)] :
        /\ \E out \in {node_init(heap, c[1], c[2], args, c[3])} :
              /\ heap' = out[1]
              /\ last' = [op |-> "construct", args |-> args,
                          res |-> IF out[2] = "none" THEN Len(heap) + 1 ELSE 0,
                          err |-> out[2]]
        /\ UNCHANGED <<chainVars, printVars, metaVars, callVars>>

CopyWithin(bound) ==
    \E n \in Live(heap) :
        /\ Len(heap) + SubtreeSize(heap, n) <= bound
        /\ heap' = copy(heap, n)
        /\ last' = [op |-> "copy", args |-> <<n>>, res |-> Len(heap) + 1,
                    err |-> "none"]
        /\ UNCHANGED <<chainVars, printVars, metaVars, callVars>>

SimplifyWithin(bound) ==
    \E n \in Live(heap) :
        /\ Len(heap) + SubtreeSize(heap, n) <= bound
        /\ \E out \in {simplify(heap, n)} :
              /\ heap' = out[1]
              /\ last' = [op |-> "simplify", args |-> <<n>>,
                          res |-> IF out[2] = "none" THEN Len(heap) + 1 ELSE 0,
                          err |-> out[2]]
        /\ UNCHANGED <<chainVars, printVars, metaVars, callVars>>

Copy == CopyWithin(MaxNodes)

Simplify == SimplifyWithin(MaxNodes)

Next == NewLeaf \/ Construct \/ Copy \/ Simplify

Spec == HeapInit /\ [][Next]_vars

\* the step just taken is a call of `op`: every call allocates an object
CallStep(op) == last'.op = op /\ heap' # heap

\* C4: a constructor call raises ValueError exactly when one of its
\* children already has a parent (a child passed twice has one by the time
\* it is visited again); the call on distinct parentless objects, fresh or
\* copied, succeeds and leaves every child's parent link on the new node.
C4_ConstructOwnership ==
    [][CallStep("construct") =>
        LET args == last'.args
            owned == \E k \in DOMAIN args : heap[args[k]].parent # 0
            twice == \E j, k \in DOMAIN args : j # k /\ args[j] = args[k]
        IN /\ (last'.err = "ValueError") <=> (owned \/ twice)
           /\ (last'.err = "none") <=> ~(owned \/ twice)
           /\ last'.err = "none" =>
                 /\ last'.res = Len(heap) + 1
                 /\ heap'[last'.res].kids = args
                 /\ \A k \in DOMAIN args : heap'[args[k]].parent = last'.res]_vars

\* a constructor call has just raised on a child that a node of the
\* program owns, and an earlier copy of that child is the child of another
\* node
C4_Witness ==
    /\ last.op = "construct"
    /\ last.err = "ValueError"
    /\ heap[last.args[1]].parent \in Live(heap)
    /\ \E c, p \in Live(heap) :
          /\ c # last.args[1]
          /\ NodeEq(heap, c, last.args[1])
          /\ heap[c].parent = p
          /\ p # heap[last.args[1]].parent

\* C5: ownership invariant: every child of a node has that node as its
\* parent link, and no object is a child of two nodes.
C5_OwnershipInvariant ==
    /\ \A p \in Ids(heap) : \A k \in DOMAIN heap[p].kids :
          heap[heap[p].kids[k]].parent = p
    /\ \A p, q \in Ids(heap) :
          p # q => Range(heap[p].kids) \cap Range(heap[q].kids) = {}

RECURSIVE Structure(_, _)
Structure(h, i) ==
    IF IsLeafObj(h, i) THEN <<h[i].type, <<h[i].value>>, <<>>>>
    ELSE <<h[i].type, <<h[i].tag>>,
           [k \in DOMAIN h[i].kids |-> Structure(h, h[i].kids[k])]>>

RECURSIVE Build(_, _)
Build(h, t) ==
    IF t[1] \in LeafTypes THEN Append(h, NewLeafObj(t[1], t[2], {}))
    ELSE LET hl == Build(h, t[3])
             hr == Build(hl, t[4])
         IN node_init(hr, "BinOp", t[2], <<Len(hl), Len(hr)>>, {})[1]

SimplifyExprs ==
    LET two == <<"Atom", 2>>
        three == <<"Atom", 3>>
        x == <<"Name", "x">>
    IN {two, x,
        <<"BinOp", "+", two, three>>,
        <<"BinOp", "*", two, three>>,
        <<"BinOp", "+", x, three>>,
        <<"BinOp", "+", two, x>>,
        <<"BinOp", "+", <<"BinOp", "+", <<"Atom", 1>>, two>>, three>>,
        <<"BinOp", "-", two, <<"BinOp", "*", two, three>>>>,
        <<"BinOp", "+", <<"BinOp", "+", x, two>>, three>>}

SimplifyInit ==
    /\ \E t \in SimplifyExprs : heap = Build(<<>>, t)
    /\ last = NoCall
    /\ ChainIdle
    /\ PrintIdle
    /\ MetaIdle
    /\ CallIdle

SimplifyNext == SimplifyWithin(MaxHeap) \/ CopyWithin(MaxHeap)

SpecSimplify == SimplifyInit /\ [][SimplifyNext]_vars

\* the value of an operator applied to two integers
Fold(op_, a, b) ==
    CASE op_ = "+" -> a + b
      [] op_ = "-" -> a - b
      [] op_ = "*" -> a * b

\* an Atom leaf knows its value
KnownLeaf(h, i) == h[i].type = "Atom"

\* every leaf under i is an Atom
Constant(h, i) == \A j \in Subtree(h, i) : IsLeafObj(h, j) => KnownLeaf(h, j)

\* the value of a constant expression
RECURSIVE Eval(_, _)
Eval(h, i) ==
    IF IsLeafObj(h, i) THEN h[i].value
    ELSE Fold(h[i].tag, Eval(h, h[i].kids[1]), Eval(h, h[i].kids[2]))

\* C8: simplify() on a node whose direct children all know their value
\* returns the folded leaf (BinOp(ADD, Atom(2), Atom(3)) gives Atom(5));
\* when a child is not known it returns a fresh parentless node equal to
\* the original; the original objects are left as they were.
C8_SimplifyFoldsKnownChildren ==
    [][(CallStep("simplify") /\ ~IsLeafObj(heap, last'.args[1])) =>
        LET n == last'.args[1]
            r == last'.res
            kids == heap[n].kids
        IN /\ last'.err = "none"
           /\ r \notin Ids(heap)
           /\ heap'[r].parent = 0
           /\ IF \A k \in DOMAIN kids : KnownLeaf(heap, kids[k])
              THEN /\ heap'[r].type = "Atom"
                   /\ heap'[r].value =
                        Fold(heap[n].tag, heap[kids[1]].value, heap[kids[2]].value)
              ELSE NodeEq(heap', r, n)
           /\ \A i \in Ids(heap) : heap'[i] = heap[i]]_vars

\* C9: simplify() on a constant expression of any depth returns a single
\* leaf holding the value of the whole expression ((1 + 2) + 3 gives
\* Atom(6)).
C9_SimplifyFoldsBottomUp ==
    [][(CallStep("simplify") /\ Constant(heap, last'.args[1])) =>
        /\ last'.err = "none"
        /\ heap'[last'.res].type = "Atom"
        /\ heap'[last'.res].value = Eval(heap, last'.args[1])]_vars

(***************************************************************************)
(* Specification of the chain reducer: a chain, a precedence table and a   *)
(* set of right-associative operators are drawn, then reduced.             *)
(***************************************************************************)
\* the alternating chain of length n over the operators ops
MakeChain(n, ops) ==
    [i \in 1..n |-> IF i % 2 = 1 THEN Val((i - 1) \div 2) ELSE ops[i \div 2]]

\* every precedence level has one associativity
UniformAssoc(prec, rassoc) ==
    \A a, b \in DOMAIN prec : prec[a] = prec[b] => (a \in rassoc <=> b \in rassoc)

ChainInit ==
    /\ \E n \in 0..(2 * MaxOps + 1) : \E ops \in [1..(n \div 2) -> ChainOps] :
          chain = MakeChain(n, ops)
    /\ precedence \in [ChainOps -> 1..MaxPrec]
    /\ right_assoc \in SUBSET ChainOps
    /\ UniformAssoc(precedence, right_assoc)
    /\ chainOut = <<"pending">>
    /\ PrintIdle
    /\ HeapIdle
    /\ MetaIdle
    /\ CallIdle

ReduceChain ==
    /\ chainOut = <<"pending">>
    /\ chainOut' = reduce_op_chain(chain, precedence, right_assoc, "tuple")
    /\ UNCHANGED <<chain, precedence, right_assoc, printVars, heapVars, metaVars, callVars>>

ChainNext == ReduceChain

SpecChain == ChainInit /\ [][ChainNext]_vars

(***************************************************************************)
(* Reference precedence parser: the root of the tree over the values       *)
(* lo..hi is the operator of lowest precedence; among equal lowest         *)
(* operators the last one when they are left-associative and the first     *)
(* one when they are right-associative.  ops[j] stands between the values  *)
(* j-1 and j.                                                              *)
(***************************************************************************)
RefRoot(lo, hi, ops, prec, rassoc) ==
    LET cand == {j \in (lo + 1)..hi :
                    \A k \in (lo + 1)..hi : prec[ops[j]] <= prec[ops[k]]}
        leftmost == CHOOSE j \in cand : \A k \in cand : j <= k
        rightmost == CHOOSE j \in cand : \A k \in cand : j >= k
    IN IF ops[leftmost] \in rassoc THEN leftmost ELSE rightmost

RECURSIVE RefParse(_, _, _, _, _)
RefParse(lo, hi, ops, prec, rassoc) ==
    IF lo = hi THEN Val(lo)
    ELSE LET r == RefRoot(lo, hi, ops, prec, rassoc)
         IN <<ops[r], RefParse(lo, r - 1, ops, prec, rassoc),
                      RefParse(r, hi, ops, prec, rassoc)>>

\* the values of a reduced tree, left to right
RECURSIVE ChainLeaves(_)
ChainLeaves(t) ==
    IF t[1] = "val" THEN <<t[2]>> ELSE ChainLeaves(t[2]) \o ChainLeaves(t[3])

ChainReduced == chainOut # <<"pending">> /\ chainOut # <<"idle">>

\* C3: for every alternating chain with at least one operator, under every
\* table whose levels have one associativity each, reduce_op_chain returns
\* the tree of the reference precedence parser, with the operands in input
\* order; [1,'*',2,'+',3] gives ('+', ('*',1,2), 3) and a right-associative
\* [a,'^',b,'^',c] gives a ^ (b ^ c).
C3_ChainMatchesReference ==
    (ChainReduced /\ Len(chain) % 2 = 1 /\ Len(chain) >= 3) =>
        LET ops == OddSlice(chain)
            k == Len(ops)
        IN /\ chainOut[1] = "ok"
           /\ chainOut[2] = RefParse(0, k, ops, precedence, right_assoc)
           /\ ChainLeaves(chainOut[2]) = [i \in 1..(k + 1) |-> i - 1]
           /\ (ops = <<"*", "+">> /\ precedence["*"] > precedence["+"]) =>
                  chainOut[2] = <<"+", <<"*", Val(0), Val(1)>>, Val(2)>>
           /\ (ops = <<"^", "^">> /\ "^" \in right_assoc) =>
                  chainOut[2] = <<"^", Val(0), <<"^", Val(1), Val(2)>>>>
           /\ (ops = <<"+", "+">> /\ "+" \notin right_assoc) =>
                  chainOut[2] = <<"+", <<"+", Val(0), Val(1)>>, Val(2)>>

\* a reduced three-operator chain mixing a left-associative level with a
\* higher right-associative one
C3_Witness ==
    /\ OddSlice(chain) = <<"+", "^", "^">>
    /\ precedence["^"] > precedence["+"]
    /\ "^" \in right_assoc /\ "+" \notin right_assoc
    /\ chainOut = <<"ok", <<"+", Val(0), <<"^", Val(1), <<"^", Val(2), Val(3)>>>>>>>>

(***************************************************************************)
(* ox/ast: type declarations.  Declaring a type runs ASTMeta.__init__,     *)
(* which builds the type's _meta (Meta.__init__) and calls _meta.init().   *)
(*                                                                         *)
(* types[c] is type c with its _meta:                                      *)
(*   bases, mro        the bases of the class statement and cls.mro()      *)
(*   option            the `root` option of class Meta: "True", "None" or  *)
(*                     "type", and named, the type it names (0 if none)    *)
(*   abstract          the `abstract` option                               *)
(*   is_root           _meta.is_root                                       *)
(*   root_meta         the type whose _meta is _meta.root_meta             *)
(*   subclasses        _meta.subclasses                                    *)
(*   sexpr_symbol_map  identity of _meta.sexpr_symbol_map, in tables       *)
(*   coerce            identity of _meta.coerce, in coerces                *)
(***************************************************************************)
Min(S) == CHOOSE x \in S : \A y \in S : x <= y

\* the C3 merge of cls.mro(): the first head that is in no tail is taken;
\* <<0>> ends the result when there is none (TypeError, no class is made)
RECURSIVE Merge(_)
Merge(seqs) ==
    LET rest == SelectSeq(seqs, LAMBDA q : q # <<>>) IN
    IF rest = <<>> THEN <<>>
    ELSE LET cands == {i \in DOMAIN rest :
                         \A j \in DOMAIN rest : Head(rest[i]) \notin Range(Tail(rest[j]))}
         IN IF cands = {} THEN <<0>>
            ELSE LET h == Head(rest[Min(cands)])
                 IN <<h>> \o Merge([j \in DOMAIN rest |->
                                      IF Head(rest[j]) = h THEN Tail(rest[j])
                                      ELSE rest[j]])

\* cls.mro() of the new type c
Mro(ts, c, bases) ==
    <<c>> \o Merge([k \in DOMAIN bases |-> ts[bases[k]].mro] \o <<bases>>)

\* the loop without its break: the last root of the mro is kept
LastRootInMro(ts, mro) ==
    LET roots == {k \in 2..Len(mro) : ts[mro[k]].is_root}
    IN mro[CHOOSE k \in roots : \A j \in roots : j <= k]

\* Meta.__init__, root None or False: the first type of cls.mro()[1:]
\* whose _meta.is_root holds
FirstRootInMro(ts, mro) ==
    LET roots == {k \in 2..Len(mro) : ts[mro[k]].is_root}
    IN mro[Min(roots)]

\* the keys of a table's symbol entries
Keys(entries) == {e[1] : e \in entries}

\* d[k] = v on the symbol entries <<k, v>> of a table
SetEntry(entries, k, v) == {e \in entries : e[1] # k} \cup {<<k, v>>}

\* the registration that forgets the sexpr_symbol option
RegisterClassSymbolsOnly(entries, c, sexpr_symbol, class_symbols) ==
    entries \cup {<<k, c>> : k \in class_symbols \ Keys(entries)}

\* Meta.__init__: self.sexpr_symbol_map[sexpr_symbol] = sexpr(self,
\* sexpr_symbol) when the option is set ("" stands for None), and
\* Meta.init: each key of cls._meta_sexpr_symbol_map() is added when the
\* table does not have it
RegisterSymbols(entries, c, sexpr_symbol, class_symbols) ==
    LET e1 == IF sexpr_symbol # "" THEN SetEntry(entries, sexpr_symbol, c)
              ELSE entries
    IN e1 \cup {<<k, c>> : k \in class_symbols \ Keys(e1)}

\* Meta.__init__ and Meta.init for the new type c; returns the new
\* <<types, tables, coerces, symbols>>
DeclareType(ts, tbs, cos, sys, bases, abstract, option, named, sexpr_symbol, class_symbols) ==
    LET c == Len(ts) + 1
        mro == Mro(ts, c, bases)
        is_root == option = "True"
        root_meta == CASE option = "True" -> c
                       [] option = "None" -> FirstRootInMro(ts, mro)
                       [] option = "type" -> named
        \* _populate_subclass_tree
        ts1 == IF ~abstract /\ ~is_root
               THEN [ts EXCEPT ![root_meta].subclasses = @ \cup {c}]
               ELSE ts
        \* the lazy sexpr_symbol_map: {} for a root, else the root_meta's
        map == IF is_root THEN Len(tbs) + 1 ELSE ts[root_meta].sexpr_symbol_map
        tbs1 == IF is_root THEN Append(tbs, {}) ELSE tbs
        \* self.sexpr_symbol_map[cls] = sexpr(self)
        tbs2 == [tbs1 EXCEPT ![map] = @ \cup {c}]
        sys1 == IF is_root THEN Append(sys, {}) ELSE sys
        sys2 == [sys1 EXCEPT ![map] =
                    RegisterSymbols(@, c, sexpr_symbol, class_symbols)]
        \* init(): coerce_function() for a root, else root_meta.coerce
        co == IF is_root THEN Len(cos) + 1 ELSE ts[root_meta].coerce
        cos1 == IF is_root THEN Append(cos, c) ELSE cos
    IN <<Append(ts1, [bases |-> bases, mro |-> mro, option |-> option,
                      named |-> named, abstract |-> abstract,
                      is_root |-> is_root, root_meta |-> root_meta,
                      subclasses |-> {}, sexpr_symbol_map |-> map,
                      coerce |-> co, sexpr_symbol |-> sexpr_symbol,
                      class_symbols |-> class_symbols]),
         tbs2, cos1, sys2>>

(***************************************************************************)
(* Specification of type declarations: AST is declared (abstract, root),   *)
(* and types are declared on top of the declared ones, with one or two     *)
(* bases and any options.                                                  *)
(***************************************************************************)
TypeIds == 1..Len(types)

MetaInit ==
    /\ types = <<[bases |-> <<>>, mro |-> <<1>>, option |-> "True", named |-> 0,
                  abstract |-> TRUE, is_root |-> TRUE, root_meta |-> 1,
                  subclasses |-> {}, sexpr_symbol_map |-> 1, coerce |-> 1,
                  sexpr_symbol |-> "", class_symbols |-> {}]>>
    /\ tables = <<{1}>>
    /\ symbols = <<{}>>
    /\ coerces = <<1>>
    /\ ChainIdle
    /\ PrintIdle
    /\ HeapIdle
    /\ CallIdle

Declare ==
    /\ Len(types) < MaxTypes + 1
    /\ \E n \in 1..2 : \E bases \in [1..n -> TypeIds] :
          /\ 0 \notin Range(Mro(types, Len(types) + 1, bases))
          /\ \E abstract \in BOOLEAN : \E option \in {"True", "None", "type"} :
             \E named \in IF option = "type" THEN TypeIds ELSE {0} :
             \E out \in {DeclareType(types, tables, coerces, symbols, bases,
                                     abstract, option, named, "", {})} :
                /\ types' = out[1]
                /\ tables' = out[2]
                /\ coerces' = out[3]
                /\ symbols' = out[4]
    /\ UNCHANGED <<chainVars, printVars, heapVars, callVars>>

MetaNext == Declare

SpecMeta == MetaInit /\ [][MetaNext]_vars

\* the proper ancestors of type t
RECURSIVE Ancestors(_)
Ancestors(t) ==
    Range(types[t].bases) \cup
    UNION {Ancestors(types[t].bases[k]) : k \in DOMAIN types[t].bases}

\* the ancestors of t declared with root=True that have no descendant
\* declared with root=True among the ancestors of t
NearestRoots(t) ==
    {r \in Ancestors(t) :
        /\ types[r].option = "True"
        /\ \A q \in Ancestors(t) : types[q].option = "True" => r \notin Ancestors(q)}

SharesWith(t, r) ==
    /\ types[t].sexpr_symbol_map = types[r].sexpr_symbol_map
    /\ types[t].coerce = types[r].coerce
    /\ t \in tables[types[r].sexpr_symbol_map]

RootsShareNothing ==
    \A r, q \in TypeIds :
        (r # q /\ types[r].option = "True" /\ types[q].option = "True") =>
            /\ types[r].sexpr_symbol_map # types[q].sexpr_symbol_map
            /\ types[r].coerce # types[q].coerce

\* C10 as stated: every type not declared with root=True has the symbol
\* table and the coerce function of its nearest ancestor declared with
\* root=True, and two roots share neither.
C10_SharedWithNearestRoot ==
    /\ \A t \in TypeIds :
          types[t].option # "True" => \E r \in NearestRoots(t) : SharesWith(t, r)
    /\ RootsShareNothing

\* C10 (amended): a type declared without a root option has the symbol
\* table and the coerce function of its nearest ancestor declared with
\* root=True; a type declared with root=<type> has those of the type it
\* names; two roots share neither.
C10_SharedWithNearestOrNamedRoot ==
    /\ \A t \in TypeIds :
          /\ types[t].option = "None" => \E r \in NearestRoots(t) : SharesWith(t, r)
          /\ types[t].option = "type" => SharesWith(t, types[t].named)
    /\ RootsShareNothing

\* a concrete type declared without a root option, two abstract layers
\* below a root that is not AST
C10_Witness ==
    \E t, a, r \in TypeIds :
        /\ types[t].option = "None" /\ ~types[t].abstract
        /\ types[a].option = "None" /\ types[a].abstract
        /\ types[r].option = "True" /\ r # 1
        /\ types[t].bases = <<a>>
        /\ types[a].bases = <<r>>
        /\ SharesWith(t, r)

(***************************************************************************)
(* Specification of type declarations with symbols: types are declared     *)
(* with one base, as a root or not, with or without a sexpr_symbol option  *)
(* and with or without symbols from _meta_sexpr_symbol_map().              *)
(***************************************************************************)
SymbolChoices == {"", "+", "-"}
ClassSymbolChoices == {{}, {"+"}}

DeclareWithSymbols ==
    /\ Len(types) < MaxDecls + 1
    /\ \E base \in TypeIds : \E option \in {"True", "None"} :
       \E sexpr_symbol \in SymbolChoices : \E class_symbols \in ClassSymbolChoices :
       \E out \in {DeclareType(types, tables, coerces, symbols, <<base>>, FALSE,
                               option, 0, sexpr_symbol, class_symbols)} :
          /\ types' = out[1]
          /\ tables' = out[2]
          /\ coerces' = out[3]
          /\ symbols' = out[4]
    /\ UNCHANGED <<chainVars, printVars, heapVars, callVars>>

SymbolsNext == DeclareWithSymbols

SpecSymbols == MetaInit /\ [][SymbolsNext]_vars

\* the root of the hierarchy of type t
RECURSIVE HierarchyRoot(_)
HierarchyRoot(t) ==
    IF types[t].is_root THEN t ELSE HierarchyRoot(types[t].root_meta)

\* the table of a hierarchy has a key for every type of the hierarchy and
\* for every sexpr_symbol declared in it
TableHoldsDeclared ==
    \A t \in TypeIds :
        LET tb == types[HierarchyRoot(t)].sexpr_symbol_map IN
        /\ t \in tables[tb]
        /\ types[t].sexpr_symbol # "" => types[t].sexpr_symbol \in Keys(symbols[tb])

\* no key of a table is removed by a step
TableOnlyGrows ==
    \A i \in DOMAIN tables :
        /\ i \in DOMAIN tables'
        /\ tables[i] \subseteq tables'[i]
        /\ Keys(symbols[i]) \subseteq Keys(symbols'[i])

\* C11: after any sequence of type declarations the shared symbol table of
\* a hierarchy has an entry for every declared type of the hierarchy and
\* for every declared sexpr_symbol, and no entry is ever removed.
C11_TableHoldsDeclaredForever == []TableHoldsDeclared /\ [][TableOnlyGrows]_vars

\* two types of one hierarchy below a root that is not AST declared the
\* same symbol, and a third symbol came from another type
C11_Witness ==
    \E t, u \in TypeIds :
        /\ t < u
        /\ HierarchyRoot(t) = HierarchyRoot(u) /\ HierarchyRoot(t) # 1
        /\ types[t].sexpr_symbol = "+" /\ types[u].sexpr_symbol = "+"
        /\ <<"+", u>> \in symbols[types[t].sexpr_symbol_map]
        /\ "-" \in Keys(symbols[types[t].sexpr_symbol_map])

(***************************************************************************)
(* ox/target/python/wrapper.py: the S callable, SMagic.__call__.           *)
(*                                                                         *)
(* A head is one of                                                        *)
(*   "sym"   a string (a PyAtom)           "Type"  an AST type             *)
(*   "enum"  an operator enum member       "func"  a plain function        *)
(*   "list"  a list (not hashable)                                         *)
(* call = [head, nargs, kw, parse, sexpr_map, ctor]: the head, the number  *)
(* of positional arguments, whether keyword arguments are given, the parse *)
(* option, the keys of sexpr_map, and what the constructor registered for  *)
(* the head does with these arguments ("returns" or the error it raises).  *)
(***************************************************************************)
Heads == {"sym", "Type", "enum", "func", "list"}
Hashable == Heads \ {"list"}

\* callable(head)
callable(head) == head \in {"Type", "func"}

\* SMagic._wrap_simple(obj): Atom(obj) for a PyAtom, to_expr(obj) for a
\* container; no branch is taken for any other head here, and the method
\* returns None
wrap_simple(obj) ==
    CASE obj = "sym" -> <<"return", "Atom", obj>>
      [] obj = "list" -> <<"return", "to_expr", obj>>
      [] OTHER -> <<"return", "None">>

\* SMagic.__call__(self, head, *args, parse=False, **kwargs)
SMagicCall(c) ==
    IF c.nargs = 0 /\ ~c.kw /\ ~c.parse THEN wrap_simple(c.head)
    ELSE IF c.parse THEN <<"raise", "NotImplementedError">>
    \* sexpr_map[head] on a head that is not hashable
    ELSE IF c.head \notin Hashable THEN <<"raise", "TypeError">>
    ELSE IF c.head \in c.sexpr_map /\ c.ctor = "returns"
    THEN <<"return", "constructor", c.head, c.nargs, c.kw>>
    ELSE IF c.head \in c.sexpr_map /\ c.ctor # "KeyError"
    THEN <<"raise", c.ctor>>
    \* except KeyError: from the lookup, or from inside the constructor,
    \* which has consumed the iterator `args` by then
    ELSE IF callable(c.head)
    THEN <<"return", "head", c.head,
           IF c.head \in c.sexpr_map THEN 0 ELSE c.nargs, c.kw>>
    ELSE <<"raise", "ValueError: invalid S-Expr head">>

(***************************************************************************)
(* Specification of one S-expression call.                                 *)
(***************************************************************************)
SExprInit ==
    /\ \E head \in Heads : \E nargs \in 0..MaxArgs : \E kw, parseOpt \in BOOLEAN :
       \E keys \in SUBSET Hashable : \E ctor \in {"returns", "KeyError", "TypeError"} :
          call = [head |-> head, nargs |-> nargs, kw |-> kw, parse |-> parseOpt,
                  sexpr_map |-> keys, ctor |-> ctor]
    /\ result = <<"pending">>
    /\ ChainIdle
    /\ PrintIdle
    /\ HeapIdle
    /\ MetaIdle

SExprCall ==
    /\ result = <<"pending">>
    /\ result' = SMagicCall(call)
    /\ UNCHANGED <<call, chainVars, printVars, heapVars, metaVars>>

SExprNext == SExprCall

SpecSExpr == SExprInit /\ [][SExprNext]_vars

\* C12: S(head, *args, **kwargs) returns what the constructor registered
\* for the head returns for the arguments, the empty argument list
\* included; an unregistered callable head is called with the arguments; an
\* unregistered head that is not callable fails with the invalid-head
\* error, and that error is raised for unregistered heads only.
C12_DispatchByHead ==
    (result # <<"pending">> /\ ~call.parse) =>
        /\ (call.head \in call.sexpr_map /\ call.ctor = "returns") =>
              result = <<"return", "constructor", call.head, call.nargs, call.kw>>
        /\ (call.head \notin call.sexpr_map /\ callable(call.head)) =>
              result = <<"return", "head", call.head, call.nargs, call.kw>>
        /\ (call.head \notin call.sexpr_map /\ ~callable(call.head)) =>
              result = <<"raise", "ValueError: invalid S-Expr head">>
        /\ result = <<"raise", "ValueError: invalid S-Expr head">> =>
              call.head \notin call.sexpr_map

(***************************************************************************)
(* ox/ast/meta_attr.py: the coerce function of a hierarchy, a              *)
(* functools.singledispatch function.                                      *)
(*                                                                         *)
(* Values: <<"host", t>> a host value of type t; <<"ast", cls, p, id>> a   *)
(* node of class cls ("Add" is in the hierarchy, "Other" is not) that has  *)
(* a parent iff p, with identity id; <<"wrapper", v>> a Wrapper around v.  *)
(* The registry is the sequence of atomic leaf declarations <<leaf,        *)
(* types>> in declaration order.                                           *)
(***************************************************************************)
HostTypes == {"int", "bool", "str", "float"}

\* type(x).__mro__ of the host types, object left out: bool derives from int
HostMro(t) == IF t = "bool" THEN <<"bool", "int">> ELSE <<t>>

\* AtomMixin._meta_finalize: coerce.register(kind)(cls) for each kind of
\* cls._meta.types; a later registration replaces an earlier one
RECURSIVE Registered(_, _)
Registered(registry, kind) ==
    IF registry = <<>> THEN ""
    ELSE IF kind \in registry[Len(registry)][2] THEN registry[Len(registry)][1]
    ELSE Registered(SubSeq(registry, 1, Len(registry) - 1), kind)

\* dispatch on the exact type of the value only
DispatchExactType(registry, mro) == Registered(registry, mro[1])

\* singledispatch: the implementation registered for the first type of the
\* MRO that has one
RECURSIVE Dispatch(_, _)
Dispatch(registry, mro) ==
    IF mro = <<>> THEN ""
    ELSE IF Registered(registry, mro[1]) # "" THEN Registered(registry, mro[1])
    ELSE Dispatch(registry, Tail(mro))

\* unwrap(obj): the wrapped object, or a copy of it when it is a node
\* without a parent
unwrap(obj) ==
    IF obj[1] # "wrapper" THEN obj
    ELSE IF obj[2][1] = "ast" /\ ~obj[2][3] THEN <<"ast", obj[2][2], FALSE, "copy">>
    ELSE obj[2]

\* type(x).__name__
TypeName(x) ==
    CASE x[1] = "host" -> x[2]
      [] x[1] = "ast" -> x[2]
      [] OTHER -> "Wrapper"

\* coerce(x) of the hierarchy that holds Add
RECURSIVE coerce(_, _)
coerce(registry, x) ==
    CASE x[1] = "ast" /\ x[2] = "Add" -> <<"return", x>>
      [] x[1] = "wrapper" -> coerce(registry, unwrap(x))
      [] x[1] = "host" /\ Dispatch(registry, HostMro(x[2])) # "" ->
            <<"return", <<"leaf", Dispatch(registry, HostMro(x[2])), x>> >>
      [] OTHER -> <<"raise", "TypeError", TypeName(x)>>

(***************************************************************************)
(* Specification of one coerce call.                                       *)
(***************************************************************************)
PlainValues ==
    {<<"host", t>> : t \in HostTypes} \cup
    {<<"ast", c, p, "orig">> : c \in {"Add", "Other"}, p \in BOOLEAN}

CoerceValues == PlainValues \cup {<<"wrapper", v>> : v \in PlainValues}

CoerceInit ==
    /\ \E number, symbol \in SUBSET {"int", "bool", "str"} : \E x \in CoerceValues :
          call = [registry |-> << <<"Number", number>>, <<"Symbol", symbol>> >>, x |-> x]
    /\ result = <<"pending">>
    /\ ChainIdle
    /\ PrintIdle
    /\ HeapIdle
    /\ MetaIdle

Coerce ==
    /\ result = <<"pending">>
    /\ result' = coerce(call.registry, call.x)
    /\ UNCHANGED <<call, chainVars, printVars, heapVars, metaVars>>

CoerceNext == Coerce

SpecCoerce == CoerceInit /\ [][CoerceNext]_vars

\* the leaf types whose declaration lists the kind
Registrants(registry, kind) ==
    {registry[i][1] : i \in {j \in DOMAIN registry : kind \in registry[j][2]}}

\* the same node, whichever object holds it
SameNode(a, b) == a[1] = "ast" /\ b[1] = "ast" /\ a[2] = b[2]

\* what the statement of C13 allows coerce(x) to be
RECURSIVE StatedOutcome(_, _, _)
StatedOutcome(registry, x, r) ==
    CASE x[1] = "ast" /\ x[2] = "Add" -> r = <<"return", x>>
      [] x[1] = "wrapper" ->
            \/ StatedOutcome(registry, x[2], r)
            \/ /\ x[2][1] = "ast" /\ x[2][2] = "Add"
               /\ r[1] = "return" /\ SameNode(r[2], x[2])
      [] x[1] = "host" /\ Registrants(registry, x[2]) # {} ->
            \E leaf \in Registrants(registry, x[2]) : r = <<"return", <<"leaf", leaf, x>> >>
      [] OTHER -> r = <<"raise", "TypeError", TypeName(x)>>

\* C13 as stated: coerce returns a root instance itself, the registered
\* leaf built from x when the host type of x was registered by an atomic
\* leaf type, the coercion of the content of a Wrapper, and raises a type
\* error naming the type of x for every other value.
C13_CoerceByRegisteredType ==
    result # <<"pending">> => StatedOutcome(call.registry, call.x, result)

\* the first type of the MRO of host type t that some declaration lists
NearestRegistered(registry, t) ==
    HostMro(t)[CHOOSE k \in DOMAIN HostMro(t) :
                  /\ Registrants(registry, HostMro(t)[k]) # {}
                  /\ \A j \in 1..(k - 1) : Registrants(registry, HostMro(t)[j]) = {}]

\* the leaf type of the latest declaration that lists the kind
LatestRegistrant(registry, kind) ==
    registry[CHOOSE k \in DOMAIN registry :
                /\ kind \in registry[k][2]
                /\ \A j \in DOMAIN registry : kind \in registry[j][2] => j <= k][1]

\* what coerce(x) is: registration covers the subtypes of the registered
\* host type, the last registration wins, and a Wrapper gives what unwrap
\* gives
RECURSIVE AmendedOutcome(_, _, _)
AmendedOutcome(registry, x, r) ==
    CASE x[1] = "ast" /\ x[2] = "Add" -> r = <<"return", x>>
      [] x[1] = "wrapper" /\ x[2][1] = "ast" /\ x[2][2] = "Add" /\ ~x[2][3] ->
            /\ r[1] = "return"
            /\ SameNode(r[2], x[2])
            /\ ~r[2][3]
            /\ r[2][4] # x[2][4]
      [] x[1] = "wrapper" -> AmendedOutcome(registry, x[2], r)
      [] x[1] = "host" /\ \E k \in DOMAIN HostMro(x[2]) :
                            Registrants(registry, HostMro(x[2])[k]) # {} ->
            r = <<"return", <<"leaf", LatestRegistrant(registry,
                                         NearestRegistered(registry, x[2])), x>> >>
      [] OTHER -> r = <<"raise", "TypeError", TypeName(x)>>

\* C13 amended: coerce returns a root instance itself; the leaf built from
\* x by the atomic leaf type that last registered the host type of x or,
\* failing that, the nearest base type of it; for a Wrapper the coercion of
\* the wrapped object, or of a copy of it when it is a node without a
\* parent; and raises a type error naming the type of x otherwise.
C13_CoerceByDispatch ==
    result # <<"pending">> => AmendedOutcome(call.registry, call.x, result)

\* a bool coerced through the registration of int
C13_Witness ==
    /\ call.x = <<"host", "bool">>
    /\ call.registry[1][2] = {"int"}
    /\ call.registry[2][2] = {}
    /\ result = <<"return", <<"leaf", "Number", <<"host", "bool">> >> >>

(***************************************************************************)
(* ox/ast/ast_meta.py: the constructor of an abstract type.                *)
(* AST.__init__ calls cls._init, which ASTMeta._make_init_method chose     *)
(* when the class was declared.                                            *)
(***************************************************************************)

\* an _init that is node_init whatever the declaration says
InitIgnoringAbstract(abstract, h, type, tag, args, attrs) ==
    node_init(h, type, tag, args, attrs)

\* ASTMeta._make_init_method(cls) applied: abstract_init raises TypeError at
\* once and leaves the object that __new__ allocated unreferenced
make_init_method(abstract, h, type, tag, args, attrs) ==
    IF abstract
    THEN <<Append(h, [NewNodeObj(type, tag, attrs) EXCEPT !.live = FALSE]), "TypeError">>
    ELSE node_init(h, type, tag, args, attrs)

\* <<type, tag, abstract>>
DeclaredTypes == {<<"Expr", "", TRUE>>, <<"BinOp", "+", FALSE>>}

ConstructDeclared ==
    /\ Len(heap) < MaxHeap
    /\ last = NoCall
    /\ \E c \in DeclaredTypes : \E n \in 0..MaxArgs : \E attrs \in {{}, {"pos"}} :
       \E args \in [1..n -> Live(heap)] :
          /\ c[3] \/ n = Arity(c[1])
          /\ \E out \in {make_init_method(c[3], heap, c[1], c[2], args, attrs)} :
                /\ heap' = out[1]
                /\ last' = [op |-> IF c[3] THEN "construct abstract" ELSE "construct",
                            args |-> args,
                            res |-> IF out[2] = "none" THEN Len(heap) + 1 ELSE 0,
                            err |-> out[2]]
    /\ UNCHANGED <<chainVars, printVars, metaVars, callVars>>

AbstractNext == ConstructDeclared

SpecAbstract == SimplifyInit /\ [][AbstractNext]_vars

is_ast_type(field) == field = "child"

\* while fields and not is_ast_type(annotations[fields[-1]]): fields.pop()
RECURSIVE PopTrailing(_, _)
PopTrailing(fields, positions) ==
    IF positions # <<>> /\ ~is_ast_type(fields[positions[Len(positions)]])
    THEN PopTrailing(fields, SubSeq(positions, 1, Len(positions) - 1))
    ELSE positions

\* Meta.children_fields: <<"fields", positions>> or <<"raise", "TypeError">>
children_fields(fields) ==
    LET all == [i \in 1..Len(fields) |-> i]
        untagged == IF fields # <<>> /\ fields[1] = "tag" THEN Tail(all) ELSE all
        kept == PopTrailing(fields, untagged)
    IN IF \E k \in DOMAIN kept : ~is_ast_type(fields[kept[k]])
       THEN <<"raise", "TypeError">>
       ELSE <<"fields", kept>>

\* ASTMeta.__init__ for a Node subclass: only the _init of a concrete type
\* reads children_fields (make_node_init_method); for an abstract type the
\* lazy attribute is left unevaluated
DeclareNode(fields, abstract) ==
    IF ~abstract /\ children_fields(fields)[1] = "raise"
    THEN <<"raise", "TypeError">>
    ELSE <<"declared", children_fields(fields)>>

(***************************************************************************)
(* Specification of one node type declaration.                             *)
(***************************************************************************)
FieldLists ==
    {fs \in UNION {[1..n -> {"tag", "attr", "child"}] : n \in 0..MaxFields} :
        Cardinality({i \in DOMAIN fs : fs[i] = "tag"}) <= 1}

FieldsInit ==
    /\ \E fs \in FieldLists : \E abstract \in BOOLEAN :
          call = [fields |-> fs, abstract |-> abstract]
    /\ result = <<"pending">>
    /\ ChainIdle
    /\ PrintIdle
    /\ HeapIdle
    /\ MetaIdle

DeclareFields ==
    /\ result = <<"pending">>
    /\ result' = DeclareNode(call.fields, call.abstract)
    /\ UNCHANGED <<call, chainVars, printVars, heapVars, metaVars>>

FieldsNext == DeclareFields

SpecFields == FieldsInit /\ [][FieldsNext]_vars

\* positions of the fields annotated with an AST type
ChildPositions(fields) == {i \in DOMAIN fields : fields[i] = "child"}

\* the child fields form one run
Contiguous(fields) ==
    \A i, j \in ChildPositions(fields) :
        \A k \in i..j : k \in ChildPositions(fields)

\* the positions of a set of fields in declared order
RECURSIVE InOrder(_)
InOrder(positions) ==
    IF positions = {} THEN <<>>
    ELSE LET least == CHOOSE i \in positions : \A j \in positions : i <= j
         IN <<least>> \o InOrder(positions \ {least})

\* C15: a declaration whose child fields are not contiguous fails with a
\* declaration error; one whose child fields form a single run, all leading
\* or all trailing among the fields, is accepted and its children_fields
\* are that run in declared order.
C15_ContiguousChildrenFields ==
    result # <<"pending">> =>
        LET children == ChildPositions(call.fields)
        IN /\ ~Contiguous(call.fields) => result[1] = "raise"
           /\ (/\ children # {}
               /\ Contiguous(call.fields)
               /\ 1 \in children \/ Len(call.fields) \in children) =>
                  result = <<"declared", <<"fields", InOrder(children)>> >>

(***************************************************************************)
(* ox/ast/children.py: node.children, the ChildrenBase view that           *)
(* make_children_class specialises for each node type, and the children of *)
(* the container types of ox/target/python/expr_ast.py, whose constructor  *)
(* hands a list of any length to the __init__ of the tree library.         *)
(***************************************************************************)
ContainerTypes == {"Tuple"}

\* Children._n_children = len(tuple(meta.children())): the number of fields
\* annotated with an AST type; Nop is a node type that declares no field
n_children(type) ==
    CASE type = "BinOp" -> 2
      [] type = "UnaryOp" -> 1
      [] OTHER -> 0

\* Container.__init__(self, children, **kwargs): the children are kept as
\* given
container_init(h, type, children) ==
    LET self == Len(h) + 1
        h0 == Append(h, [NewNodeObj(type, "", {}) EXCEPT !.kids = children])
    IN [i \in Ids(h0) |->
          IF i \in Range(children) THEN [h0[i] EXCEPT !.parent = self] ELSE h0[i]]

\* the heaps a program builds: two leaves, a node over them or over the
\* first of them, and one more leaf
ChildrenHeap(type) ==
    LET leaves == <<NewLeafObj("Name", "x", {}), NewLeafObj("Atom", 2, {})>>
        built == CASE type = "BinOp" -> node_init(leaves, "BinOp", "+", <<1, 2>>, {})[1]
                   [] type = "UnaryOp" -> node_init(leaves, "UnaryOp", "-", <<1>>, {})[1]
                   [] type = "Nop" -> node_init(leaves, "Nop", "", <<>>, {})[1]
                   [] OTHER -> container_init(leaves, type, <<1>>)
    IN Append(built, NewLeafObj("Name", "y", {}))

ChildrenInit ==
    /\ \E type \in {"BinOp", "UnaryOp", "Nop", "Tuple"} : heap = ChildrenHeap(type)
    /\ last = NoCall
    /\ ChainIdle
    /\ PrintIdle
    /\ MetaIdle
    /\ CallIdle

\* the nodes whose children attribute is a ChildrenBase view
FixedNodes(h) == {n \in Live(h) : ~IsLeafObj(h, n) /\ h[n].type \notin ContainerTypes}

\* tuple indexing self._attrs[i]: the position, or 0 for IndexError
AttrIndex(type, i) ==
    IF i >= 0 /\ i < n_children(type) THEN i + 1
    ELSE IF i < 0 /\ -i <= n_children(type) THEN n_children(type) + i + 1
    ELSE 0

\* ChildrenBase.__setitem__(i, o): setattr(self._ast, self._attrs[i], o)
SetItem ==
    \E n \in FixedNodes(heap) : \E i \in (-MaxIndex)..MaxIndex : \E o \in Live(heap) :
        /\ heap' = IF AttrIndex(heap[n].type, i) = 0 THEN heap
                   ELSE [heap EXCEPT ![n].kids[AttrIndex(heap[n].type, i)] = o]
        /\ last' = [op |-> "setitem", args |-> <<n, i, o>>, res |-> 0,
                    err |-> IF AttrIndex(heap[n].type, i) = 0 THEN "IndexError"
                            ELSE "none"]
        /\ UNCHANGED <<chainVars, printVars, metaVars, callVars>>

\* ChildrenBase.__delitem__(i): raise size_error()
DelItem ==
    \E n \in FixedNodes(heap) : \E i \in (-MaxIndex)..MaxIndex :
        /\ last' = [op |-> "delitem", args |-> <<n, i>>, res |-> 0, err |-> "ValueError"]
        /\ UNCHANGED <<heap, chainVars, printVars, metaVars, callVars>>

\* ChildrenBase.insert(index, obj): raise size_error()
Insert ==
    \E n \in FixedNodes(heap) : \E i \in (-MaxIndex)..MaxIndex : \E o \in Live(heap) :
        /\ last' = [op |-> "insert", args |-> <<n, i, o>>, res |-> 0, err |-> "ValueError"]
        /\ UNCHANGED <<heap, chainVars, printVars, metaVars, callVars>>

\* MutableSequence.append(value): self.insert(len(self), value)
AppendChild ==
    \E n \in FixedNodes(heap) : \E o \in Live(heap) :
        /\ last' = [op |-> "append", args |-> <<n, o>>, res |-> 0, err |-> "ValueError"]
        /\ UNCHANGED <<heap, chainVars, printVars, metaVars, callVars>>

\* MutableSequence.pop(index=-1): v = self[index]; del self[index]
Pop ==
    \E n \in FixedNodes(heap) :
        /\ last' = [op |-> "pop", args |-> <<n>>, res |-> 0,
                    err |-> IF AttrIndex(heap[n].type, -1) = 0 THEN "IndexError"
                            ELSE "ValueError"]
        /\ UNCHANGED <<heap, chainVars, printVars, metaVars, callVars>>

ChildrenNext == SetItem \/ DelItem \/ Insert \/ AppendChild \/ Pop

SpecChildren == ChildrenInit /\ [][ChildrenNext]_vars

\* every node has as many children as its type declares child fields
DeclaredNumberOfChildren ==
    \A n \in Live(heap) :
        ~IsLeafObj(heap, n) => Len(heap[n].kids) = n_children(heap[n].type)

\* children[i] = x replaces the i-th child field and nothing else
SetItemReplaces ==
    (last'.op = "setitem" /\ last'.err = "none") =>
        LET n == last'.args[1]
            k == AttrIndex(heap[n].type, last'.args[2])
        IN /\ heap'[n].kids[k] = last'.args[3]
           /\ \A j \in DOMAIN heap[n].kids : j # k => heap'[n].kids[j] = heap[n].kids[j]
           /\ \A m \in DOMAIN heap : m # n => heap'[m] = heap[m]

\* a size-changing operation raises ValueError and changes nothing
SizeChangeRaises ==
    last'.op \in {"delitem", "insert", "append", "pop"} =>
        last'.err = "ValueError" /\ heap' = heap

\* C16: for every node, in every reachable state, len(node.children) is the
\* number of child fields its type declares: children[i] = x replaces the
\* i-th child field, and del, insert, append and pop on node.children raise
\* ValueError and leave the children unchanged.
C16_FixedNumberOfChildren ==
    /\ []DeclaredNumberOfChildren
    /\ [][SetItemReplaces /\ SizeChangeRaises]_vars

(***************************************************************************)
(* ox/lexer.py: the function lexer and the lexer it returns.               *)
(*                                                                         *)
(* A keyword of a rule is a sequence of characters (<<"_", "W", "S">>), a  *)
(* pattern is a character class repeated once or more, a source is a       *)
(* sequence of characters.  call = [rules, ignore, src]; a rule is         *)
(* [keyword, class, transform]; ignore is the set of names of the ignore   *)
(* list, empty for ignore=None.                                            *)
(***************************************************************************)
DigitChars == {"1", "2"}
SrcChars == DigitChars \cup {"+", " ", "^"}

\* TOKEN_EXT.fullmatch(name).groupdict(): the groups skip, name, priority
\* (0 for no priority suffix) of _?NAME(_<digit>_)?
TokenExt(keyword) ==
    LET skip == keyword # <<>> /\ keyword[1] = "_"
        rest == IF skip THEN Tail(keyword) ELSE keyword
        n == Len(rest)
        suffix == /\ n > 3
                  /\ rest[n] = "_"
                  /\ rest[n - 1] \in DigitChars
                  /\ rest[n - 2] = "_"
    IN [skip |-> skip,
        name |-> IF suffix THEN SubSeq(rest, 1, n - 3) ELSE rest,
        priority |-> IF ~suffix THEN 0 ELSE IF rest[n - 1] = "1" THEN 1 ELSE 2]

\* Lex.from_arg(name, arg, ignore): the skip group is read and not passed
\* to Lex(...)
from_arg(rule, ignore) ==
    LET groups == TokenExt(rule.keyword)
    IN [pattern |-> rule.class,
        name |-> groups.name,
        priority |-> groups.priority,
        ignore |-> groups.name \in ignore,
        transform |-> rule.transform]

\* lex_rules of lexer()
lex_rules(rules, ignore) == [k \in DOMAIN rules |-> from_arg(rules[k], ignore)]

\* ignore = [rule.name for rule in lex_rules if rule.ignore]: the names
\* declared with %ignore
IgnoreDeclarations(rules, ignore) ==
    {lex_rules(rules, ignore)[k].name :
        k \in {j \in DOMAIN rules : lex_rules(rules, ignore)[j].ignore}}

\* int(lexeme) for a lexeme made of digits
RECURSIVE ToInt(_)
ToInt(lexeme) ==
    IF lexeme = <<>> THEN 0
    ELSE 10 * ToInt(SubSeq(lexeme, 1, Len(lexeme) - 1))
         + (IF lexeme[Len(lexeme)] = "1" THEN 1 ELSE 2)

\* a callback that leaves the token as it is
KeepRawValue(transform, lexeme) == <<"str", lexeme>>

\* token_callback(fn): tk.value = fn(tk.value), for the rules that have a
\* transform; a value is <<"int", n>> or <<"str", characters>>
token_callback(transform, lexeme) ==
    IF transform = "int" THEN <<"int", ToInt(lexeme)>> ELSE <<"str", lexeme>>

\* the end of the longest run of characters of the class that starts at i
RECURSIVE RunEnd(_, _, _)
RunEnd(text, class, i) ==
    IF i < Len(text) /\ text[i + 1] \in class THEN RunEnd(text, class, i + 1) ELSE i

\* lark.lex(src) from position i on: the token of the rule that matches at
\* i, dropped when the rule is declared with %ignore, and
\* UnexpectedCharacters when no rule matches
RECURSIVE Scan(_, _, _, _)
Scan(rules, text, i, out) ==
    IF i > Len(text) THEN <<"tokens", out>>
    ELSE IF \A k \in DOMAIN rules : text[i] \notin rules[k].pattern
    THEN <<"UnexpectedCharacters", i>>
    ELSE LET rule == rules[CHOOSE k \in DOMAIN rules : text[i] \in rules[k].pattern]
             j == RunEnd(text, rule.pattern, i)
             tk == [type |-> rule.name, pos |-> i,
                    lexeme |-> SubSeq(text, i, j),
                    value |-> token_callback(rule.transform, SubSeq(text, i, j))]
         IN Scan(rules, text, j + 1, IF rule.ignore THEN out ELSE Append(out, tk))

\* the lexer made from the rules and the ignore list, applied to src
lexer(rules, ignore, text) == Scan(lex_rules(rules, ignore), text, 1, <<>>)

(***************************************************************************)
(* Specification of one lexer built and run: the rules INT, SUM and WS of  *)
(* the calculator of tests/test_lexer.py under several keywords.           *)
(***************************************************************************)
Sources == UNION {[1..n -> SrcChars] : n \in 0..MaxSrc}

LexKeywords ==
    {<< <<"I", "N", "T">>, <<"W", "S">> >>,
     << <<"I", "N", "T", "_", "2", "_">>, <<"W", "S">> >>,
     << <<"I", "N", "T">>, <<"_", "W", "S">> >>}

IgnoreLists ==
    {{}, {<<"W", "S">>}, {<<"_", "W", "S">>}, {<<"W", "S">>, <<"S", "U", "M">>}}

LexerInit ==
    /\ \E kw \in LexKeywords : \E ignore \in IgnoreLists : \E text \in Sources :
          call = [rules |-> <<[keyword |-> kw[1], class |-> DigitChars, transform |-> "int"],
                              [keyword |-> <<"S", "U", "M">>, class |-> {"+"},
                               transform |-> "None"],
                              [keyword |-> kw[2], class |-> {" "}, transform |-> "None"]>>,
                  ignore |-> ignore,
                  src |-> text]
    /\ result = <<"pending">>
    /\ ChainIdle
    /\ PrintIdle
    /\ HeapIdle
    /\ MetaIdle

Lex ==
    /\ result = <<"pending">>
    /\ result' = lexer(call.rules, call.ignore, call.src)
    /\ UNCHANGED <<call, chainVars, printVars, heapVars, metaVars>>

LexerNext == Lex

SpecLexer == LexerInit /\ [][LexerNext]_vars

\* the rule of the call whose name is the type of a token
RuleOfType(type) ==
    call.rules[CHOOSE k \in DOMAIN call.rules : TokenExt(call.rules[k].keyword).name = type]

\* the names of the ignore list
Ignored == call.ignore

\* the character at position i belongs to a rule named in the ignore list
IgnoredAt(i) ==
    \E k \in DOMAIN call.rules :
        /\ call.src[i] \in call.rules[k].class
        /\ TokenExt(call.rules[k].keyword).name \in Ignored

\* the character at position i matches no rule
Unmatched(i) == \A k \in DOMAIN call.rules : call.src[i] \notin call.rules[k].class

\* the value a transform gives for a raw lexeme
Transformed(transform, lexeme) ==
    IF transform = "int" THEN <<"int", ToInt(lexeme)>> ELSE <<"str", lexeme>>

RuleIgnored(k) ==
    /\ TokenExt(call.rules[k].keyword).name \in IgnoreDeclarations(call.rules, call.ignore)
    /\ result[1] = "tokens" =>
          \A t \in DOMAIN result[2] :
              result[2][t].type # TokenExt(call.rules[k].keyword).name

\* C18: a lex rule is ignored if and only if its name is in the ignore list
\* or its declared name carries the always-skip prefix, a leading
\* underscore.
C18_IgnoredIffListedOrSkipPrefix ==
    result # <<"pending">> =>
        \A k \in DOMAIN call.rules :
            RuleIgnored(k) <=>
                \/ TokenExt(call.rules[k].keyword).name \in Ignored
                \/ call.rules[k].keyword[1] = "_"

(***************************************************************************)
(* ox/parser.py: grammar_rules and next_name, the aliases of the grammar   *)
(* that parser(lexer, rules) synthesizes.                                  *)
(*                                                                         *)
(* A name is a tuple of parts: <<"expr">> is expr, <<"fn", "expr">> is     *)
(* fn_expr and <<"add", 1>> is add_1.  A function is [id, name, ident]:    *)
(* its identity, its __name__ and whether that is an identifier; NoFunc is *)
(* None.  A rule is [name, defs], defs being the functions of its          *)
(* definitions in order.  The first definition of a rule has several       *)
(* children, the others one.                                               *)
(***************************************************************************)
NoFunc == [id |-> 0, name |-> <<>>, ident |-> FALSE]

Funcs ==
    {[id |-> 1, name |-> <<"expr">>, ident |-> TRUE],
     [id |-> 2, name |-> <<"add">>, ident |-> TRUE],
     [id |-> 3, name |-> <<"add">>, ident |-> TRUE],
     [id |-> 4, name |-> <<"<lambda>">>, ident |-> FALSE]}

\* next_name(container, key): key, or the first key_i that is free
next_name(container, key) ==
    IF key \notin DOMAIN container THEN key
    ELSE key \o <<CHOOSE i \in 1..999 :
                    /\ key \o <<i>> \notin DOMAIN container
                    /\ \A j \in 1..(i - 1) : key \o <<j>> \in DOMAIN container>>

\* the loop of grammar_rules over the definitions of one rule, from the
\* k-th on: <<alternatives, rule_map>>
RECURSIVE RuleDefs(_, _, _, _, _)
RuleDefs(rule_name, defs, k, rule_map, out) ==
    IF k > Len(defs) THEN <<out, rule_map>>
    ELSE LET func == defs[k]
             key == IF func.name \notin DOMAIN rule_map /\ func.ident
                    THEN func.name ELSE <<"fn">> \o rule_name
             name == next_name(rule_map, key)
         IN IF func = NoFunc
            THEN RuleDefs(rule_name, defs, k + 1, rule_map,
                          Append(out, [rule |-> rule_name, def |-> k,
                                       alias |-> <<>>, func |-> func]))
            ELSE RuleDefs(rule_name, defs, k + 1, (name :> func) @@ rule_map,
                          Append(out, [rule |-> rule_name, def |-> k,
                                       alias |-> name, func |-> func]))

\* grammar_rules(rules, rule_map), from the r-th rule on
RECURSIVE grammar_rules(_, _, _, _)
grammar_rules(rules, r, rule_map, out) ==
    IF r > Len(rules) THEN <<out, rule_map>>
    ELSE LET done == RuleDefs(rules[r].name, rules[r].defs, 1, rule_map, out)
         IN grammar_rules(rules, r + 1, done[2], done[1])

\* the Transformer made of rule_map: a tree is labelled with the alias of
\* its alternative or, without one, with the name of its rule (a rule
\* declared with ? makes no tree for a definition with one child); the
\* callback of that label is called, NoFunc when there is none
Invoked(alternative, rule_map) ==
    LET label == IF alternative.alias # <<>> THEN alternative.alias
                 ELSE IF alternative.def = 1 THEN alternative.rule
                 ELSE <<>>
    IN IF label \in DOMAIN rule_map THEN rule_map[label] ELSE NoFunc

(***************************************************************************)
(* Specification of one grammar synthesized.                               *)
(***************************************************************************)
RuleNames == {<<"expr">>, <<"atom">>}

RuleDefChoices == UNION {[1..n -> Funcs \cup {NoFunc}] : n \in 1..MaxAlts}

RuleLists ==
    {rs \in UNION {[1..n -> [name : RuleNames, defs : RuleDefChoices]] : n \in 1..2} :
        \A i, j \in DOMAIN rs : i # j => rs[i].name # rs[j].name}

GrammarInit ==
    /\ \E rs \in RuleLists : call = [rules |-> rs]
    /\ result = <<"pending">>
    /\ ChainIdle
    /\ PrintIdle
    /\ HeapIdle
    /\ MetaIdle

Synthesize ==
    /\ result = <<"pending">>
    /\ result' = grammar_rules(call.rules, 1, <<>>, <<>>)
    /\ UNCHANGED <<call, chainVars, printVars, heapVars, metaVars>>

GrammarNext == Synthesize

SpecGrammar == GrammarInit /\ [][GrammarNext]_vars

\* C19: every alternative bound to a reducer is tagged with an alias whose
\* registered callback is that reducer; the aliases of different
\* alternatives are pairwise distinct and distinct from every rule name; a
\* reducer is invoked only for the alternatives it was bound to.
C19_AliasesUnique ==
    result # <<"pending">> =>
        LET alts == result[1]
            rule_map == result[2]
        IN /\ \A a \in DOMAIN alts : alts[a].func # NoFunc =>
                 /\ alts[a].alias \in DOMAIN rule_map
                 /\ rule_map[alts[a].alias] = alts[a].func
           /\ \A a, b \in DOMAIN alts :
                 (a # b /\ alts[a].alias # <<>>) => alts[a].alias # alts[b].alias
           /\ \A a \in DOMAIN alts : \A r \in DOMAIN call.rules :
                 alts[a].alias # call.rules[r].name
           /\ \A a \in DOMAIN alts :
                 Invoked(alts[a], rule_map) # NoFunc =>
                    Invoked(alts[a], rule_map) = alts[a].func

(***************************************************************************)
(* ox/parser.py: parser(lexer, ...) and the start symbol.                  *)
(*                                                                         *)
(* call = [style, rules, start]: the rules are given as keyword arguments  *)
(* ("kwargs") or as one dictionary ("dict"), rules are their names in      *)
(* declared order, and start is the start option, "" when none is given.   *)
(* With keyword rules the start option and a rule named start are the same *)
(* keyword, whose value is then written <<"definitions", "start">>.        *)
(***************************************************************************)

\* kwargs["start"] when the rules are the keyword arguments
StartKeyword(c) ==
    IF c.start # "" THEN c.start
    ELSE IF "start" \in Range(c.rules) THEN <<"definitions", "start">>
    ELSE ""

\* extract_lark_options(kwargs): the start option, popped from kwargs
extract_lark_options(c) ==
    IF c.style = "kwargs" THEN StartKeyword(c) ELSE c.start

\* rules, = args or (kwargs,): the keyword arguments that are left, or the
\* dictionary
RulesOf(c) ==
    IF c.style = "kwargs" THEN SelectSeq(c.rules, LAMBDA name : name # "start")
    ELSE c.rules

\* parser(lexer, ...): the productions of the grammar and the start option
\* given to Lark, whose default is "start"
parser(c) ==
    LET option == extract_lark_options(c)
        rules == RulesOf(c)
    IN IF "start" \notin Range(rules) /\ rules = <<>>
       THEN <<"raise", "StopIteration">>
       ELSE <<"parser",
              rules,
              IF option # "" THEN option
              ELSE IF "start" \notin Range(rules) THEN rules[1]
              ELSE "start">>

(***************************************************************************)
(* Specification of one parser built.                                      *)
(***************************************************************************)
StartRuleNames == {"start", "expr", "atom"}

DeclaredRules ==
    {rs \in UNION {[1..n -> StartRuleNames] : n \in 1..3} :
        \A i, j \in DOMAIN rs : i # j => rs[i] # rs[j]}

ParserInit ==
    /\ \E style \in {"kwargs", "dict"} : \E rs \in DeclaredRules :
       \E option \in {""} \cup Range(rs) :
          /\ (style = "kwargs" /\ "start" \in Range(rs)) => option = ""
          /\ call = [style |-> style, rules |-> rs, start |-> option]
    /\ result = <<"pending">>
    /\ ChainIdle
    /\ PrintIdle
    /\ HeapIdle
    /\ MetaIdle

BuildParser ==
    /\ result = <<"pending">>
    /\ result' = parser(call)
    /\ UNCHANGED <<call, chainVars, printVars, heapVars, metaVars>>

ParserNext == BuildParser

SpecParser == ParserInit /\ [][ParserNext]_vars

\* C20: the start symbol of the parser is a rule of the generated grammar:
\* the explicit start option when one is given, otherwise the first
\* declared rule; a rule declared under the keyword start is emitted as a
\* production and is the start symbol.
C20_StartSymbolIsARule ==
    result # <<"pending">> =>
        /\ result[1] = "parser"
        /\ result[3] \in Range(result[2])
        /\ call.start # "" => result[3] = call.start
        /\ (call.start = "" /\ "start" \notin Range(call.rules)) =>
              result[3] = call.rules[1]
        /\ (call.start = "" /\ "start" \in Range(call.rules)) =>
              /\ "start" \in Range(result[2])
              /\ result[3] = "start"


(***************************************************************************)
(* ox/algorithms.py: the shape check of reduce_op_chain, under SpecChain,  *)
(* whose chains have every length from 0 to 2 * MaxOps + 1.                *)
(***************************************************************************)
\* C21: reduce_op_chain accepts every chain of odd length >= 1, a chain of
\* length 1 giving back its single value with no node built, and fails with
\* ValueError for every chain of even length, the empty chain included.
C21_OddLengthAccepted ==
    ChainReduced =>
        /\ Len(chain) % 2 = 0 => chainOut = <<"ValueError">>
        /\ Len(chain) % 2 = 1 => chainOut[1] = "ok"
        /\ Len(chain) = 1 => chainOut = <<"ok", chain[1]>>

(***************************************************************************)
(* ox/ast/meta_attr.py: the three routes by which a declaration registers  *)
(* a symbolic head in the table of its hierarchy.  Meta.__init__ runs      *)
(*     self.sexpr_symbol_map.update(sexpr_symbol_map or {})                *)
(*     self.sexpr_symbol_map[sexpr_symbol] = sexpr(self, sexpr_symbol)     *)
(* and Meta.init then adds the keys of cls._meta_sexpr_symbol_map() that   *)
(* the table does not have.  An entry <<k, c>> is head k bound to the      *)
(* constructor that type c registered.                                     *)
(***************************************************************************)
\* dict.update: every key of the option map is (re)bound
UpdateEntries(entries, c, option_map) ==
    {e \in entries : e[1] \notin option_map} \cup {<<k, c>> : k \in option_map}

\* the registrations of one declaration, in the order of the code
RegisterRoutes(entries, c, option_map, sexpr_symbol, class_symbols) ==
    RegisterSymbols(UpdateEntries(entries, c, option_map), c,
                    sexpr_symbol, class_symbols)

RouteHeads == {"", "+"}
RouteMaps == {{}, {"+"}, {"-"}}

\* a type is declared with one base, as a root or not, registering heads
\* by any of the three routes
DeclareByRoutes ==
    /\ Len(types) < MaxDecls + 1
    /\ \E base \in TypeIds : \E option \in {"True", "None"} :
       \E option_map \in RouteMaps : \E sexpr_symbol \in RouteHeads :
       \E class_symbols \in ClassSymbolChoices :
       \E out \in {DeclareType(types, tables, coerces, symbols, <<base>>, FALSE,
                               option, 0, "", {})} :
          LET c == Len(out[1]) IN
          /\ types' = [out[1] EXCEPT ![c].sexpr_symbol = sexpr_symbol,
                                     ![c].class_symbols = class_symbols]
          /\ tables' = out[2]
          /\ coerces' = out[3]
          /\ symbols' = [out[4] EXCEPT ![out[1][c].sexpr_symbol_map] =
                            RegisterRoutes(@, c, option_map, sexpr_symbol,
                                           class_symbols)]
    /\ UNCHANGED <<chainVars, printVars, heapVars, callVars>>

RoutesNext == DeclareByRoutes

SpecRoutes == MetaInit /\ [][RoutesNext]_vars

\* a step leaves every entry of every table as it was
EntriesKept ==
    \A i \in DOMAIN symbols : \A e \in symbols[i] : e \in symbols'[i]

\* C22: within one hierarchy the first registration of a symbolic head
\* wins, whichever route registered it: every later registration of that
\* head leaves the entry of the table unchanged.
C22_FirstRegistrationWins == [][EntriesKept]_vars

(***************************************************************************)
(* ox/ast/ast_core.py, ox/ast/ast_mixins.py: free_vars.                    *)
(*                                                                         *)
(* Expr.free_vars(self, exclude=(), include=()) is inherited by every      *)
(* expression type but the names, which have NameMixin.free_vars(self,     *)
(* include=(), exclude=()).  A call binds its two arguments by position    *)
(* (first, second) or by keyword (exclude=, include=).                     *)
(***************************************************************************)
\* NameMixin.free_vars
NameFreeVars(t, include, exclude) == {t[2]} \ exclude

\* Expr.free_vars: the set `vars` (here included) starts as set(include);
\* for each child the set child.free_vars(exclude, include) minus exclude
\* is computed into xs and dropped; `vars` is returned
RECURSIVE ExprFreeVars(_, _, _)
ExprFreeVars(t, exclude, include) ==
    LET included == include
        child_free_vars(ch) ==
            \* the positional call child.free_vars(exclude, include)
            IF ch[1] = "Name" THEN NameFreeVars(ch, exclude, include)
            ELSE ExprFreeVars(ch, exclude, include)
        xs == IF IsLeaf(t) THEN <<>>
              ELSE [k \in 3..Len(t) |-> child_free_vars(t[k]) \ exclude]
    IN included

\* node.free_vars(exclude, include) and node.free_vars(exclude=..., include=...)
free_vars(t, style, exclude, include) ==
    IF t[1] = "Name"
    THEN IF style = "positional" THEN NameFreeVars(t, exclude, include)
         ELSE NameFreeVars(t, include, exclude)
    ELSE ExprFreeVars(t, exclude, include)

FreeNames == {"x", "y"}
FreeLeaves == {Name("x"), Name("y"), Atom("2")}

\* the sums with exactly n inner nodes
RECURSIVE SumsOfSize(_)
SumsOfSize(n) ==
    IF n = 0 THEN FreeLeaves
    ELSE {BinOp("+", p[1], p[2]) :
            p \in UNION {SumsOfSize(i) \X SumsOfSize(n - 1 - i) : i \in 0..(n - 1)}}

FreeVarsInit ==
    /\ \E t \in UNION {SumsOfSize(n) : n \in 0..MaxInner} :
       \E style \in {"positional", "keyword"} :
       \E exclude \in SUBSET FreeNames : \E include \in {{}, {"z"}} :
          call = [tree |-> t, style |-> style, exclude |-> exclude,
                  include |-> include]
    /\ result = <<"pending">>
    /\ ChainIdle
    /\ PrintIdle
    /\ HeapIdle
    /\ MetaIdle

FreeVars ==
    /\ result = <<"pending">>
    /\ result' = <<"set", free_vars(call.tree, call.style, call.exclude, call.include)>>
    /\ UNCHANGED <<call, chainVars, printVars, heapVars, metaVars>>

FreeVarsNext == FreeVars

SpecFreeVars == FreeVarsInit /\ [][FreeVarsNext]_vars

\* the names of the Name leaves of an expression
RECURSIVE NamesOf(_)
NamesOf(t) ==
    IF t[1] = "Name" THEN {t[2]}
    ELSE IF IsLeaf(t) THEN {}
    ELSE UNION {NamesOf(t[k]) : k \in 3..Len(t)}

\* C23: free_vars(exclude, include) of any expression is the set of the
\* names of its Name leaves minus exclude: a name contributes itself unless
\* excluded, a composite node gives the union of its children's results
\* (x + y + 2 gives {x, y}), and no excluded name is in the result, whether
\* exclude is passed by position or by keyword.  Stated for calls that
\* include nothing.
C23_FreeVarsAreNamesMinusExclude ==
    (result # <<"pending">> /\ result # <<"idle">> /\ call.include = {}) =>
        /\ result[2] = NamesOf(call.tree) \ call.exclude
        /\ result[2] \cap call.exclude = {}

(***************************************************************************)
(* ox/ast/meta_attr.py: the subclass sets of a _meta.  In this part a type *)
(* record has four more fields: is_leaf and is_node (issubclass(cls, Leaf) *)
(* and issubclass(cls, Node)), leaf_subclasses and node_subclasses.  A     *)
(* declaration has one base among the declared types and may mix in the    *)
(* Leaf or the Node base class.                                            *)
(***************************************************************************)
\* the subclass tree filled for abstract types too
PopulateIgnoringAbstract(ts, c) ==
    LET meta == ts[c].root_meta IN
    IF ~ts[c].is_root
    THEN [ts EXCEPT ![meta].subclasses = @ \cup {c},
                    ![meta].leaf_subclasses = IF ts[c].is_leaf THEN @ \cup {c} ELSE @,
                    ![meta].node_subclasses = IF ts[c].is_node THEN @ \cup {c} ELSE @]
    ELSE ts

\* Meta._populate_subclass_tree for the new type c
populate_subclass_tree(ts, c) ==
    LET meta == ts[c].root_meta IN
    IF ~ts[c].abstract /\ ~ts[c].is_root
    THEN [ts EXCEPT ![meta].subclasses = @ \cup {c},
                    ![meta].leaf_subclasses = IF ts[c].is_leaf THEN @ \cup {c} ELSE @,
                    ![meta].node_subclasses = IF ts[c].is_node THEN @ \cup {c} ELSE @]
    ELSE ts

\* the fields of a new _meta that hold its kind and its empty kind sets
KindFields(is_leaf, is_node) ==
    [is_leaf |-> is_leaf, is_node |-> is_node,
     leaf_subclasses |-> {}, node_subclasses |-> {}]

Mixins == {"none", "Leaf", "Node"}

\* AST is declared: abstract, root, neither a leaf nor a node
SubclassInit ==
    /\ types = <<[bases |-> <<>>, mro |-> <<1>>, option |-> "True", named |-> 0,
                  abstract |-> TRUE, is_root |-> TRUE, root_meta |-> 1,
                  subclasses |-> {}, sexpr_symbol_map |-> 1, coerce |-> 1,
                  sexpr_symbol |-> "", class_symbols |-> {}]
                 @@ KindFields(FALSE, FALSE)>>
    /\ tables = <<{1}>>
    /\ symbols = <<{}>>
    /\ coerces = <<1>>
    /\ ChainIdle
    /\ PrintIdle
    /\ HeapIdle
    /\ CallIdle

\* class C(base) or class C(Leaf, base) or class C(Node, base), with any
\* options; a type that is both a leaf and a node fails the assertion of
\* Meta.__init__ before any set is touched
DeclareKind ==
    /\ Len(types) < MaxTypes
    /\ \E base \in TypeIds : \E mixin \in Mixins : \E abstract \in BOOLEAN :
       \E option \in {"True", "None", "type"} :
       \E named \in IF option = "type" THEN TypeIds ELSE {0} :
          LET is_leaf == mixin = "Leaf" \/ types[base].is_leaf
              is_node == mixin = "Node" \/ types[base].is_node
          IN /\ ~(is_leaf /\ is_node)
             /\ \E out \in {DeclareType(types, tables, coerces, symbols, <<base>>,
                                        abstract, option, named, "", {})} :
                   LET c == Len(out[1])
                       ts == [out[1] EXCEPT ![c] = @ @@ KindFields(is_leaf, is_node)]
                   IN /\ types' = populate_subclass_tree(ts, c)
                      /\ tables' = out[2]
                      /\ coerces' = out[3]
                      /\ symbols' = out[4]
    /\ UNCHANGED <<chainVars, printVars, heapVars, callVars>>

SubclassNext == DeclareKind

SpecSubclasses == SubclassInit /\ [][SubclassNext]_vars

Concrete(t) == ~types[t].abstract /\ ~types[t].is_root

\* the kind sets of r are the leaves and the nodes of its subclasses
KindSetsSplit(r) ==
    /\ types[r].leaf_subclasses = {t \in types[r].subclasses : types[t].is_leaf}
    /\ types[r].node_subclasses = {t \in types[r].subclasses : types[t].is_node}
    /\ types[r].leaf_subclasses \cap types[r].node_subclasses = {}

\* C24 as stated: the subclasses of a hierarchy root are exactly the
\* non-abstract, non-root types declared in its hierarchy; leaf_subclasses
\* and node_subclasses are the leaf and the node types among them, disjoint
\* and together covering subclasses.
C24_SubclassesOfHierarchy ==
    \A r \in TypeIds : types[r].is_root =>
        /\ types[r].subclasses =
              {t \in TypeIds : Concrete(t) /\ HierarchyRoot(t) = r}
        /\ KindSetsSplit(r)
        /\ types[r].leaf_subclasses \cup types[r].node_subclasses = types[r].subclasses

\* C24 (amended): the subclasses of any type r are exactly the
\* non-abstract, non-root types whose root_meta is r, that is the types
\* declared with no root option below the root r and the types declared
\* with root=r, r being a root or not; leaf_subclasses and node_subclasses
\* are the leaf and the node types among them, disjoint, and cover every
\* subclass that is a leaf or a node; abstract types and roots are in none.
C24_SubclassesOfRootMeta ==
    \A r \in TypeIds :
        /\ types[r].subclasses =
              {t \in TypeIds : Concrete(t) /\ types[t].root_meta = r}
        /\ KindSetsSplit(r)
        /\ types[r].leaf_subclasses \cup types[r].node_subclasses =
              {t \in types[r].subclasses : types[t].is_leaf \/ types[t].is_node}
        /\ \A t \in types[r].subclasses : Concrete(t)

\* the root AST with a leaf type and a node type declared below it
C24_Witness ==
    /\ Len(types) = 3
    /\ types[1].subclasses = {2, 3}
    /\ types[1].leaf_subclasses = {2}
    /\ types[1].node_subclasses = {3}

(***************************************************************************)
(* ox/ast/wrapper.py: the operators of a wrapper class over the Python     *)
(* expressions.  call.refs[k] is the node that wrapper k holds (its        *)
(* private __ref slot) and result is the outcome of the last operator.  An *)
(* operand is <<"wrapper", k>> or a host integer <<"host", v>>.  The       *)
(* operators are those of the left-associative "+", attribute access and   *)
(* call; every node is of the hierarchy of Expr.                           *)
(***************************************************************************)
\* unwrap that hands out the wrapped node itself
UnwrapWithoutCopy(h, refs, obj) ==
    IF obj[1] = "wrapper" THEN <<h, <<"node", refs[obj[2]]>> >> ELSE <<h, obj>>

\* unwrap(obj): a copy of the wrapped node when its parent is None, the
\* wrapped node otherwise; an object that is not a wrapper as it is.
\* Returns <<heap, value>>.
UnwrapOperand(h, refs, obj) ==
    IF obj[1] = "wrapper"
    THEN LET wrapped == refs[obj[2]] IN
         IF h[wrapped].parent = 0
         THEN <<copy(h, wrapped), <<"node", Len(h) + 1>> >>
         ELSE <<h, <<"node", wrapped>> >>
    ELSE <<h, obj>>

\* _meta.coerce on an unwrapped operand: a node is returned as it is, an
\* integer becomes a new Atom.  Returns <<heap, identity>>.
to_expr(h, x) ==
    IF x[1] = "node" THEN <<h, x[2]>>
    ELSE <<Append(h, NewLeafObj("Atom", x[2], {})), Len(h) + 1>>

\* cls(fn(...)): a new wrapper around the node that was built, or the error
Wrapped(r) ==
    IF r[2] = "none" THEN <<r[1], <<"wrapper", Len(r[1])>> >>
    ELSE <<r[1], <<"raise", r[2]>> >>

\* bin_op(wrapped, other) of make_binary_operator, fn being the constructor
\* of binary_operator_sexpr for "+": cls(op, lhs, rhs)
bin_op(h, refs, k, other) ==
    LET u1 == UnwrapOperand(h, refs, <<"wrapper", k>>)
        u2 == UnwrapOperand(u1[1], refs, other)
        rhs == to_expr(u2[1], u2[2])
    IN Wrapped(node_init(rhs[1], "BinOp", "+", <<u1[2][2], rhs[2]>>, {}))

\* bin_op(wrapped, other) of make_rbinary_operator: the operands flipped
rbin_op(h, refs, k, other) ==
    LET u1 == UnwrapOperand(h, refs, <<"wrapper", k>>)
        u2 == UnwrapOperand(u1[1], refs, other)
        lhs == to_expr(u2[1], u2[2])
    IN Wrapped(node_init(lhs[1], "BinOp", "+", <<lhs[2], u1[2][2]>>, {}))

\* __getattr__(self, attr) of make_getattr: GetAttr(expr, attr)
wrapper_getattr(h, refs, k) ==
    LET u1 == UnwrapOperand(h, refs, <<"wrapper", k>>)
    IN Wrapped(node_init(u1[1], "GetAttr", "", <<u1[2][2]>>, {"attr"}))

\* __call__(self, arg) of make_fcall: every argument is unwrapped, then
\* Call.from_args builds Call(e, Tree("args", [arg])); generate_call_args
\* raises TypeError for an argument that is not an expression
wrapper_call(h, refs, k, arg) ==
    LET u1 == UnwrapOperand(h, refs, <<"wrapper", k>>)
        u2 == UnwrapOperand(u1[1], refs, arg)
    IN IF u2[2][1] # "node" THEN <<u2[1], <<"raise", "TypeError">> >>
       ELSE LET h1 == container_init(u2[1], "Tree", <<u2[2][2]>>)
            IN Wrapped(node_init(h1, "Call", "", <<u1[2][2], Len(h1)>>, {}))

Operands == {<<"wrapper", k>> : k \in DOMAIN call.refs} \cup {<<"host", 1>>}

\* the objects an operator on these operands may add to the heap
Room(k, other) ==
    SubtreeSize(heap, call.refs[k]) + 2 +
    (IF other[1] = "wrapper" THEN SubtreeSize(heap, call.refs[other[2]]) ELSE 1)

\* the outcome r = <<heap, value>> of an operator is stored
Outcome(r) ==
    /\ heap' = r[1]
    /\ result' = r[2]
    /\ call' = IF r[2][1] = "wrapper"
               THEN [call EXCEPT !.refs = Append(@, r[2][2])]
               ELSE call
    /\ UNCHANGED <<last, chainVars, printVars, metaVars>>

WrapperInit ==
    /\ HeapIdle
    /\ call = [refs |-> <<>>]
    /\ result = <<"none">>
    /\ ChainIdle
    /\ PrintIdle
    /\ MetaIdle

\* py(1) or py.x: a wrapper around a new leaf
WrapLeaf ==
    /\ Len(call.refs) < MaxWrappers
    /\ Len(heap) < MaxHeap
    /\ \E leaf \in {NewLeafObj("Atom", 1, {}), NewLeafObj("Name", "x", {})} :
          Outcome(<<Append(heap, leaf), <<"wrapper", Len(heap) + 1>> >>)

\* w + other
BinaryOperator ==
    /\ Len(call.refs) < MaxWrappers
    /\ \E k \in DOMAIN call.refs : \E other \in Operands :
          /\ Len(heap) + Room(k, other) <= MaxHeap
          /\ Outcome(bin_op(heap, call.refs, k, other))

\* other + w, other not being a wrapper
ReversedOperator ==
    /\ Len(call.refs) < MaxWrappers
    /\ \E k \in DOMAIN call.refs :
          /\ Len(heap) + Room(k, <<"host", 1>>) <= MaxHeap
          /\ Outcome(rbin_op(heap, call.refs, k, <<"host", 1>>))

\* w.attr
AttributeAccess ==
    /\ Len(call.refs) < MaxWrappers
    /\ \E k \in DOMAIN call.refs :
          /\ Len(heap) + Room(k, <<"host", 1>>) <= MaxHeap
          /\ Outcome(wrapper_getattr(heap, call.refs, k))

\* w(arg)
CallOperator ==
    /\ Len(call.refs) < MaxWrappers
    /\ \E k \in DOMAIN call.refs : \E arg \in Operands :
          /\ Len(heap) + Room(k, arg) <= MaxHeap
          /\ Outcome(wrapper_call(heap, call.refs, k, arg))

WrapperNext ==
    \/ WrapLeaf
    \/ BinaryOperator
    \/ ReversedOperator
    \/ AttributeAccess
    \/ CallOperator

SpecWrapper == WrapperInit /\ [][WrapperNext]_vars

\* C25: the wrapper operators (binary, reversed binary, attribute access,
\* call) never attach the node held by a wrapper to a parent: after any
\* sequence of operators the node of every wrapper has parent None, and no
\* operator fails with the ownership error, also when one wrapper is used
\* twice in one expression (a + a + a).
C25_HeldNodesStayParentless ==
    /\ \A k \in DOMAIN call.refs : heap[call.refs[k]].parent = 0
    /\ result # <<"raise", "ValueError">>

\* a + a + a has been built from the wrapper a of a leaf
C25_Witness ==
    /\ Len(call.refs) = 3
    /\ IsLeafObj(heap, call.refs[1])
    /\ LET n == heap[call.refs[3]] IN
       /\ n.type = "BinOp"
       /\ heap[n.kids[1]].type = "BinOp"
       /\ \A j \in Subtree(heap, call.refs[3]) :
             IsLeafObj(heap, j) => heap[j].value = heap[call.refs[1]].value
       /\ SubtreeSize(heap, call.refs[3]) = 5

(***************************************************************************)
(* ox/ast/print_context.py: PrintContext.  call is the context object,     *)
(* with its fields indent_level and indentation; result is the last call   *)
(* made on it, [op, n, out].  A string of k indentation strings is the     *)
(* sequence of its k pieces.                                               *)
(***************************************************************************)
\* dedent without its test
DedentUnchecked(ctx, n) ==
    <<[ctx EXCEPT !.indent_level = @ - n], <<"return", "None">> >>

\* PrintContext.indent(n); returns <<context, outcome>>
indent(ctx, n) ==
    <<[ctx EXCEPT !.indent_level = @ + n], <<"return", "None">> >>

\* PrintContext.dedent(n)
dedent(ctx, n) ==
    IF ctx.indent_level < n THEN <<ctx, <<"raise", "ValueError">> >>
    ELSE <<[ctx EXCEPT !.indent_level = @ - n], <<"return", "None">> >>

\* str * int: the string repeated, the empty string when the count is
\* not positive
StrTimes(str, count) == [i \in 1..count |-> str]

\* PrintContext.start_line()
start_line(ctx) ==
    <<ctx, <<"return", StrTimes(ctx.indentation, ctx.indent_level)>> >>

\* PrintContext(indent, indentation_string), the level not negative
ContextInit ==
    /\ \E level \in 0..1 : \E str \in {"    ", "\t"} :
          call = [indent_level |-> level, indentation |-> str]
    /\ result = [op |-> "init", n |-> 0, out |-> <<"return", "None">>]
    /\ ChainIdle
    /\ PrintIdle
    /\ HeapIdle
    /\ MetaIdle

ContextCall(op, n, r) ==
    /\ call' = r[1]
    /\ result' = [op |-> op, n |-> n, out |-> r[2]]
    /\ UNCHANGED <<chainVars, printVars, heapVars, metaVars>>

Indent ==
    \E n \in 0..MaxStep :
        /\ call.indent_level + n <= MaxLevel
        /\ ContextCall("indent", n, indent(call, n))

Dedent == \E n \in 0..MaxStep : ContextCall("dedent", n, dedent(call, n))

StartLine == ContextCall("start_line", 0, start_line(call))

ContextNext == Indent \/ Dedent \/ StartLine

SpecContext == ContextInit /\ [][ContextNext]_vars

\* what a step on the context does, read from the call it records
ContextStep ==
    LET level == call.indent_level
        n == result'.n
    IN /\ call'.indentation = call.indentation
       /\ result'.op = "indent" =>
             call'.indent_level = level + n /\ result'.out = <<"return", "None">>
       /\ (result'.op = "dedent" /\ n > level) =>
             call'.indent_level = level /\ result'.out = <<"raise", "ValueError">>
       /\ (result'.op = "dedent" /\ n <= level) =>
             call'.indent_level = level - n /\ result'.out = <<"return", "None">>
       /\ result'.op = "start_line" =>
             /\ call'.indent_level = level
             /\ Len(result'.out[2]) = level
             /\ \A i \in 1..level : result'.out[2][i] = call.indentation

\* C26: under any sequence of indent(n) and dedent(n) calls with n >= 0
\* indent_level is never negative: a dedent(n) with n above the level
\* raises ValueError and leaves the level unchanged, every other call
\* changes it by exactly +n or -n, and start_line() returns the
\* indentation string repeated indent_level times and changes nothing.
C26_IndentLevelNeverNegative ==
    [](call.indent_level >= 0) /\ [][ContextStep]_vars

\* a dedent by more than the positive level has just been refused
C26_Witness ==
    /\ result.op = "dedent"
    /\ result.out = <<"raise", "ValueError">>
    /\ call.indent_level > 0
    /\ result.n > call.indent_level

(***************************************************************************)
(* examples/calculator.py: eval_ast over the trees that the semantic       *)
(* actions of the calculator grammar build:                                *)
(*   <<"num", v>>           a NUMBER (lambda x: x.value)                   *)
(*   <<"name", s>>          a NAME, a Python str                           *)
(*   <<"op", head, x, y>>   binop: the tuple (op.value, x, y)              *)
(*   <<"assign", s, rhs>>   assign: the dict {lhs.value: rhs}              *)
(* call.env is the environment, a function from the names to a bound       *)
(* object or <<"unbound">>; call.node is the tree last evaluated and       *)
(* result its outcome.                                                     *)
(***************************************************************************)
CalcNames == {"x", "y"}

\* operations[head](a, b): arithmetic on two numbers; the + of two tuples
\* or of two strings concatenates them; anything else is a TypeError
apply_operation(head, a, b) ==
    IF a[1] = "raise" THEN a
    ELSE IF b[1] = "raise" THEN b
    ELSE IF a[2][1] = "num" /\ b[2][1] = "num"
    THEN <<"return", <<"num", IF head = "+" THEN a[2][2] + b[2][2]
                              ELSE a[2][2] * b[2][2]>> >>
    ELSE IF head = "+" /\ a[2][1] # "num" /\ b[2][1] # "num"
              /\ (a[2][1] = "name") = (b[2][1] = "name")
    THEN <<"return", <<"concat", a[2], b[2]>> >>
    ELSE <<"raise", "TypeError">>

\* eval_ast(node, env) on an expression: the outcome; env is only read
RECURSIVE eval_operand(_, _)
eval_operand(node, env) ==
    CASE node[1] = "op" ->
            apply_operation(node[2], eval_operand(node[3], env),
                            eval_operand(node[4], env))
      [] node[1] = "name" ->
            IF env[node[2]] = <<"unbound">> THEN <<"raise", "KeyError">>
            ELSE <<"return", env[node[2]]>>
      [] OTHER -> <<"return", node>>

\* eval_ast(node, env): <<env, outcome>>; for a dict env.update(node) and
\* the first value of the dict
eval_ast(node, env) ==
    IF node[1] = "assign"
    THEN <<[env EXCEPT ![node[2]] = node[3]], <<"return", node[3]>> >>
    ELSE <<env, eval_operand(node, env)>>

CalcLeaves == {<<"num", 1>>, <<"num", 2>>, <<"name", "x">>}
CalcExprs == CalcLeaves \cup
             {<<"op", o, a, b>> : o \in {"+", "*"}, a \in CalcLeaves, b \in CalcLeaves}
CalcSources == CalcExprs \cup {<<"assign", s, e>> : s \in CalcNames, e \in CalcExprs}

CalcInit ==
    /\ call = [env |-> [s \in CalcNames |-> <<"unbound">>], node |-> <<"none">>]
    /\ result = <<"none">>
    /\ ChainIdle
    /\ PrintIdle
    /\ HeapIdle
    /\ MetaIdle

\* eval_expr(src, env) with the shared environment, parser(src) being node
EvalExpr ==
    /\ \E node \in CalcSources : \E r \in {eval_ast(node, call.env)} :
          /\ call' = [env |-> r[1], node |-> node]
          /\ result' = r[2]
    /\ UNCHANGED <<chainVars, printVars, heapVars, metaVars>>

CalcNext == EvalExpr

SpecCalc == CalcInit /\ [][CalcNext]_vars

\* the numeric value of an expression in an environment, <<"undefined">>
\* when a name of the expression is not bound to a number
RECURSIVE NumericValue(_, _)
NumericValue(e, env) ==
    CASE e[1] = "num" -> e
      [] e[1] = "name" -> IF env[e[2]][1] = "num" THEN env[e[2]] ELSE <<"undefined">>
      [] e[1] = "op" ->
            LET a == NumericValue(e[3], env)
                b == NumericValue(e[4], env)
            IN IF a[1] # "num" \/ b[1] # "num" THEN <<"undefined">>
               ELSE <<"num", IF e[2] = "+" THEN a[2] + b[2] ELSE a[2] * b[2]>>
      [] OTHER -> <<"undefined">>

\* what the evaluation of call'.node in call.env is to do
CalcStep ==
    LET node == call'.node
        env == call.env
    IN IF node[1] = "assign"
       THEN LET v == NumericValue(node[3], env) IN
            v[1] = "num" =>
                /\ call'.env = [env EXCEPT ![node[2]] = v]
                /\ result' = <<"return", v>>
       ELSE /\ call'.env = env
            /\ NumericValue(node, env)[1] = "num" =>
                  result' = <<"return", NumericValue(node, env)>>

\* C27: with a shared environment, eval_expr("<name> = <expr>", env) binds
\* <name> to the numeric value of <expr> in the previous environment and
\* returns that value, for every expression, compound ones included; a
\* later expression that mentions <name> uses the bound value; and an
\* expression that is not an assignment leaves env unchanged.
C27_AssignmentBindsValue == [][CalcStep]_vars

(***************************************************************************)
(* ox/ast/ast_meta.py: node_init when it raises, under Spec.               *)
(***************************************************************************)
\* a constructor call that raised left the parent of its arguments alone
FailedCallKeepsParents ==
    (CallStep("construct") /\ last'.err # "none") =>
        \A k \in DOMAIN last'.args :
            heap'[last'.args[k]].parent = heap[last'.args[k]].parent

\* C28: a node construction that fails changes nothing: when the
\* constructor raises because a child already has a parent, or because one
\* object is passed in two child slots, every argument has the parent it
\* had before the call, so an unparented child listed before the offending
\* one is still unparented and can be used to build another node.
C28_FailedConstructionChangesNothing == [][FailedCallKeepsParents]_vars

(***************************************************************************)
(* ox/ast/ast_operator_mixins.py: binary_operator_sexpr(cls, op).  An      *)
(* argument is a host value <<"host", v>>; to_expr makes it the expression *)
(* <<"expr", v>>; a node of cls is <<"cls", op, lhs, rhs>>.  An outcome is  *)
(* <<"return", node>> or <<"raise", error>>.                               *)
(***************************************************************************)
SexprOps == {"+", "**"}

\* BinaryOp.right_associative and left_associative
right_associative(op_) == op_ = "**"
left_associative(op_) == ~right_associative(op_)

\* cls(*argv): BinaryOpMixin.__init__(self, op, lhs, rhs, **kwargs) takes
\* exactly three positional arguments
cls_new(argv) ==
    IF Len(argv) # 3 THEN <<"raise", "TypeError">>
    ELSE <<"return", <<"cls", argv[1], argv[2], argv[3]>> >>

\* list.reverse()
ReverseSeq(s) == [i \in 1..Len(s) |-> s[Len(s) + 1 - i]]

\* while exprs: new = cls(op, new, exprs.pop())
RECURSIVE LeftLoop(_, _, _)
LeftLoop(op_, new, exprs) ==
    IF exprs = <<>> \/ new[1] = "raise" THEN new
    ELSE LeftLoop(op_, cls_new(<<op_, new[2], exprs[Len(exprs)]>>),
                  SubSeq(exprs, 1, Len(exprs) - 1))

\* while exprs: new = cls(op, exprs.pop(), new)
RECURSIVE RightLoop(_, _, _)
RightLoop(op_, new, exprs) ==
    IF exprs = <<>> \/ new[1] = "raise" THEN new
    ELSE RightLoop(op_, cls_new(<<op_, exprs[Len(exprs)], new[2]>>),
                   SubSeq(exprs, 1, Len(exprs) - 1))

\* the constructor that binary_operator_sexpr(cls, op) returns, applied to
\* args; unpacking fewer than two values raises ValueError
sexpr_constructor(op_, args) ==
    LET coerced == [i \in 1..Len(args) |-> <<"expr", args[i][2]>>]
        n == Len(coerced)
    IN IF n < 2 THEN <<"raise", "ValueError">>
       ELSE IF left_associative(op_)
       THEN \* lhs, rhs, *exprs = coerced; new = cls(op, lhs, rhs)
            LeftLoop(op_, cls_new(<<op_, coerced[1], coerced[2]>>),
                     ReverseSeq(SubSeq(coerced, 3, n)))
       ELSE \* *exprs, lhs, rhs = coerced; new = cls(lhs, rhs)
            RightLoop(op_, cls_new(<<coerced[n - 1], coerced[n]>>),
                      SubSeq(coerced, 1, n - 2))

OpSexprInit ==
    /\ \E op_ \in SexprOps : \E n \in 0..(MaxOps + 1) :
       \E args \in [1..n -> {<<"host", 1>>, <<"host", 2>>}] :
          call = [op |-> op_, args |-> args]
    /\ result = <<"pending">>
    /\ ChainIdle
    /\ PrintIdle
    /\ HeapIdle
    /\ MetaIdle

ApplyConstructor ==
    /\ result = <<"pending">>
    /\ result' = sexpr_constructor(call.op, call.args)
    /\ UNCHANGED <<call, chainVars, printVars, heapVars, metaVars>>

OpSexprNext == ApplyConstructor

SpecOpSexpr == OpSexprInit /\ [][OpSexprNext]_vars

\* ((e1 op e2) op e3) ... op ek over the coerced arguments
RECURSIVE LeftNested(_, _, _)
LeftNested(op_, args, k) ==
    IF k = 1 THEN <<"expr", args[1][2]>>
    ELSE <<"cls", op_, LeftNested(op_, args, k - 1), <<"expr", args[k][2]>> >>

\* ek op (... op en) over the coerced arguments
RECURSIVE RightNested(_, _, _)
RightNested(op_, args, k) ==
    IF k = Len(args) THEN <<"expr", args[k][2]>>
    ELSE <<"cls", op_, <<"expr", args[k][2]>>, RightNested(op_, args, k + 1)>>

\* C29: the constructor returned by binary_operator_sexpr(cls, op), applied
\* to n >= 2 arguments, coerces every argument and builds n - 1 nodes of
\* cls, all tagged op: left-nested for a left-associative op and
\* right-nested for a right-associative one.
C29_NestsByAssociativity ==
    (result # <<"pending">> /\ result # <<"idle">> /\ Len(call.args) >= 2) =>
        result = <<"return",
                   IF right_associative(call.op)
                   THEN RightNested(call.op, call.args, 1)
                   ELSE LeftNested(call.op, call.args, Len(call.args))>>

(***************************************************************************)
(* ox/lexer.py: the pattern specs of the caller.  A spec object is         *)
(*   <<"str", pattern>>            a string                                *)
(*   <<"pair", pattern, fn>>       a tuple or list (pattern, fn)           *)
(*   <<"dict", items>>             a dict, items its (pattern, fn) pairs   *)
(*                                 in insertion order                      *)
(* call.rules are the objects the caller holds, call.original their value  *)
(* before the first build, call.builds the number of lexer(...) calls made *)
(* with them, call.first the outcome of the first one and result the       *)
(* outcome of the last one.                                                *)
(***************************************************************************)
\* the branches of Lex.from_arg on the type of arg: <<arg, outcome>>, arg
\* being the object after the call.  dict.popitem() removes the item
\* inserted last and raises KeyError on an empty dict.
lex_from_spec(arg) ==
    CASE arg[1] = "str" ->
            <<arg, <<"return", [pattern |-> arg[2], transform |-> "None"]>> >>
      [] arg[1] = "pair" ->
            <<arg, <<"return", [pattern |-> arg[2], transform |-> arg[3]]>> >>
      [] arg[1] = "dict" ->
            IF arg[2] = <<>> THEN <<arg, <<"raise", "KeyError">> >>
            ELSE LET item == arg[2][Len(arg[2])]
                     popped == <<"dict", SubSeq(arg[2], 1, Len(arg[2]) - 1)>>
                 IN IF popped[2] # <<>> THEN <<popped, <<"raise", "ValueError">> >>
                    ELSE <<popped, <<"return", [pattern |-> item[1],
                                                transform |-> item[2]]>> >>

\* lex_rules = [Lex.from_arg(k, v, ignore) ... for k, v in rules.items()]:
\* the specs are visited in order until one raises.  Returns <<specs,
\* outcome>>, the outcome of a build that succeeds being the rule list.
RECURSIVE build_rules(_, _, _)
build_rules(specs, k, out) ==
    IF k > Len(specs) THEN <<specs, <<"return", out>> >>
    ELSE LET r == lex_from_spec(specs[k])
             after == [specs EXCEPT ![k] = r[1]]
         IN IF r[2][1] = "raise" THEN <<after, r[2]>>
            ELSE build_rules(after, k + 1, Append(out, r[2][2]))

SpecObjects ==
    {<<"str", "a">>, <<"pair", "a", "int">>, <<"dict", << <<"a", "int">> >> >>,
     <<"dict", << <<"a", "int">>, <<"b", "None">> >> >>}

LexSpecInit ==
    /\ \E n \in 1..MaxRules : \E specs \in [1..n -> SpecObjects] :
          call = [rules |-> specs, original |-> specs, builds |-> 0,
                  first |-> <<"none">>]
    /\ result = <<"none">>
    /\ ChainIdle
    /\ PrintIdle
    /\ HeapIdle
    /\ MetaIdle

\* lexer(NAME=spec, ...) with the objects the caller holds
BuildLexer ==
    /\ call.builds < 2
    /\ \E r \in {build_rules(call.rules, 1, <<>>)} :
          /\ call' = [call EXCEPT !.rules = r[1], !.builds = @ + 1,
                                  !.first = IF call.builds = 0 THEN r[2] ELSE @]
          /\ result' = r[2]
    /\ UNCHANGED <<chainVars, printVars, heapVars, metaVars>>

LexSpecNext == BuildLexer

SpecLexSpec == LexSpecInit /\ [][LexSpecNext]_vars

\* C30: building a lexer does not modify the pattern specs of the caller:
\* after lexer(...) every mapping, pair or string passed as a rule is as it
\* was, so a second lexer built from the same objects succeeds and has the
\* rule set of the first.
C30_SpecsUnchangedByBuild ==
    /\ call.rules = call.original
    /\ (call.builds = 2 /\ call.first[1] = "return") => result = call.first
=============================================================================
